---- MODULE Spec2Model ----
(***************************************************************************)
(* A model of opus (pekrau/opus): one call sequence is applied in lockstep *)
(* to the three backends (docx, pdf, epub).  doc[b] is the Document object *)
(* of backend b together with the objects made from it; the remaining      *)
(* variables are what the calling code holds: its Section and List         *)
(* objects, the with-blocks it is inside of, the calls made so far, and    *)
(* the number of calls the run is cut off at.                              *)
(***************************************************************************)
EXTENDS Integers, Sequences, FiniteSets, TLC

VARIABLES doc, secs, lists, scopes, log, limit

vars == <<doc, secs, lists, scopes, log, limit>>

(* ---------------------------------------------------------------- bounds *)
MaxCalls == 4

MaxSectionCalls == 6

MaxFootnoteCalls == 5

MaxSections == 2

MaxParagraphs == 2

MaxLists == 1

MaxNoNumbers == 2

MaxFootnotes == 2

MaxPageCalls == 3

MaxReferenceCalls == 4

MaxIndexCalls == 5

MaxStyleCalls == 5

MaxStyles == 3

MaxTextCalls == 3

MaxLen == 3

MaxCountCalls == 4

MaxLabelCalls == 6
MaxSeparatorCalls == 4
MaxEndCalls == 4
MaxItemCalls == 5
MaxTocCalls == 5
MaxPageTableCalls == 2

(* ------------------------------------------------------------- utilities *)
Backends == {"docx", "pdf", "epub"}

Front(s) == SubSeq(s, 1, Len(s) - 1)

Last(s) == s[Len(s)]

StyleNames == {"b", "i", "u", "sub", "sup"}

NoStyle == [s \in StyleNames |-> 0]

(* Constructor arguments the calls are tried with: those of test.py and    *)
(* the defaults.                                                           *)
(* A References object as the document sees it: the keys of its items,     *)
(* casefolded as __init__ stores them, and the set used; bound is false    *)
(* for a document made with references=None.                               *)
NoReferences == [bound |-> FALSE, items |-> {}, used |-> {}]

Configs ==
  { [sn |-> TRUE, pn |-> TRUE, toc |-> 2, refs |-> NoReferences],
    [sn |-> FALSE, pn |-> FALSE, toc |-> 0, refs |-> NoReferences] }

(* A text argument: one word, named by the ordinal of the call it is in.   *)
Word(n) == [w |-> "word", n |-> n]

(* ---------------------------------------------------------- BaseDocument *)
(* The fields of BaseDocument.__init__, then those the backends add: the   *)
(* output tree (out), the pending slot _paragraph (cur, 0 for None) and    *)
(* the Paragraph, Footnote, List and ListItem objects made so far.         *)
BaseDocumentInit(cfg) ==
  [ section_numbers |-> cfg.sn,
    paragraph_numbers |-> cfg.pn,
    toc_level |-> cfg.toc,
    paragraphs_count |-> 0,
    sections_counts |-> <<0>>,
    footnotes |-> <<>>,
    references |-> cfg.refs,
    indexed |-> <<>>,
    page |-> [pdf |-> 1, docx |-> 1, epub |-> 1],
    old_paragraph_numbers |-> FALSE,
    old_section_numbers |-> FALSE,
    out |-> <<[k |-> "titlepage"]>>,
    cur |-> 0,
    pars |-> <<>>,
    fobjs |-> <<>>,
    lobjs |-> <<>>,
    items |-> <<>>,
    toc |-> FALSE,
    toc_rows |-> <<>>,
    chapters |-> <<[file |-> <<0>>, content |-> <<>>]>>,
    filename |-> <<0>>,
    written |-> FALSE ]

section_level(d) == Len(d.sections_counts) - 1

(* BaseSection.number: the counters but the last, joined by the delimiter; *)
(* the joined string is kept as the sequence of its numbers.               *)
number(d) == Front(d.sections_counts)

(* BaseSection.title: the heading text, numbered or not.                   *)
title(d, s) ==
  IF d.section_numbers
  THEN [k |-> "heading", sec |-> s, level |-> section_level(d),
        numbered |-> TRUE, num |-> number(d)]
  ELSE [k |-> "heading", sec |-> s, level |-> section_level(d),
        numbered |-> FALSE, num |-> <<>>]

Subheading(d, s) ==
  [k |-> "subheading", sec |-> s, level |-> section_level(d) + 1]

(* __init__ that counts the section at the outermost level *)
BaseSectionInitOutermost(d) == [d EXCEPT !.sections_counts[1] = @ + 1]

BaseSectionInit(d) ==
  [d EXCEPT !.sections_counts[Len(d.sections_counts)] = @ + 1]

BaseSectionEnter(d) == [d EXCEPT !.sections_counts = Append(@, 0)]

(* __exit__ that leaves the counter of the level in place *)
BaseSectionExitKeep(d) == d

(* __exit__ that drops the footnotes pending with the level *)
BaseSectionExitEmptied(d) ==
  [d EXCEPT !.sections_counts = Front(@), !.footnotes = <<>>]

BaseSectionExit(d) == [d EXCEPT !.sections_counts = Front(@)]

(* BaseParagraph.__init__ that leaves the counter alone *)
BaseParagraphInitUncounted(d) == d

BaseParagraphInit(d) == [d EXCEPT !.paragraphs_count = @ + 1]

NoNumbersEnter(d) ==
  [d EXCEPT !.old_paragraph_numbers = d.paragraph_numbers,
            !.paragraph_numbers = FALSE,
            !.old_section_numbers = d.section_numbers,
            !.section_numbers = FALSE]

NoNumbersExit(d) ==
  [d EXCEPT !.paragraph_numbers = d.old_paragraph_numbers,
            !.section_numbers = d.old_section_numbers]

(* Objects are named by their order of creation.                           *)
NewId(d) == Len(d.pars) + 1

(* kind: the stylesheet name (docx, pdf) or tag (epub) of the class.       *)
ParObject(kind) ==
  [kind |-> kind, buf |-> <<>>, line_started |-> FALSE, style |-> NoStyle]

Normal == [style |-> "Normal", level |-> 1]

Quote == [style |-> "Quote", level |-> 1]

Label(n) == [w |-> "label", n |-> n]

(* ------------------------------------------------------------------ pdf *)
(* The flowables list a block goes to: the document's or a list item's.   *)
PdfAppend(d, item, blk) ==
  IF item = 0 THEN [d EXCEPT !.out = Append(@, blk)]
  ELSE [d EXCEPT !.items[item].flowables = Append(@, blk)]

PdfParagraphOutput(d, p, item) ==
  IF d.pars[p].buf = <<>> THEN d
  ELSE LET buf == IF d.paragraph_numbers
                  THEN <<[t |-> "text", txt |-> Label(d.paragraphs_count)]>>
                       \o d.pars[p].buf
                  ELSE d.pars[p].buf
       IN [PdfAppend(d, item, [k |-> "par", pid |-> p, kind |-> d.pars[p].kind,
                               body |-> buf])
             EXCEPT !.pars[p].buf = <<>>]

(* flush that puts the pending paragraph out and keeps it pending *)
PdfFlushKeep(d) ==
  IF d.cur # 0
  THEN PdfAppend(d, 0, [k |-> "par", pid |-> d.cur, kind |-> d.pars[d.cur].kind,
                        body |-> d.pars[d.cur].buf])
  ELSE d

PdfFlush(d) ==
  IF d.cur # 0 THEN [PdfParagraphOutput(d, d.cur, 0) EXCEPT !.cur = 0] ELSE d

PdfAdd(d, p, txt, raw) ==
  [d EXCEPT !.pars[p].buf =
     (IF raw THEN @ ELSE Append(@, [t |-> "sep"])) \o <<[t |-> "text", txt |-> txt]>>]

PdfStyleEnter(d, p, s) ==
  [d EXCEPT !.pars[p].buf = Append(@, [t |-> "open", s |-> s])]

PdfStyleExit(d, p, s) ==
  [d EXCEPT !.pars[p].buf = Append(@, [t |-> "close", s |-> s])]

PdfThematicBreak(d) == [PdfFlush(d) EXCEPT !.out = Append(@, [k |-> "hr"])]

PdfNewParagraph(d, kind) ==
  [BaseParagraphInit(d) EXCEPT !.pars = Append(@, ParObject(kind))]

PdfDocParagraph(d, kind, hasText, txt, tb) ==
  LET d1 == PdfFlush(d)
      d2 == IF tb THEN PdfThematicBreak(d1) ELSE d1
      p == NewId(d2)
      d3 == [PdfNewParagraph(d2, kind) EXCEPT !.cur = p]
  IN IF hasText THEN PdfAdd(d3, p, txt, FALSE) ELSE d3

(* pagebreak that leaves the pending paragraph pending *)
PdfPagebreakUnflushed(d) == [d EXCEPT !.out = Append(@, [k |-> "pagebreak"])]

PdfPagebreak(d) == [PdfFlush(d) EXCEPT !.out = Append(@, [k |-> "pagebreak"])]

PdfSetupToc(d) ==
  IF d.toc_level = 0 \/ d.toc THEN d
  ELSE [PdfFlush(d) EXCEPT !.out = @ \o <<[k |-> "pagebreak"], [k |-> "contents"],
                                          [k |-> "toc"]>>,
                           !.toc = TRUE]

PdfSection(d) == BaseSectionInit(PdfFlush(PdfSetupToc(d)))

PdfSectionEnter(d, s, sub) ==
  LET d1 == BaseSectionEnter(d)
      d2 == IF section_level(d1) <= 1 THEN PdfPagebreak(d1) ELSE d1
      d3 == [d2 EXCEPT !.out = Append(@, title(d2, s))]
  IN IF sub THEN [d3 EXCEPT !.out = Append(@, Subheading(d3, s))] ELSE d3

PdfWrite(d) == [PdfFlush(d) EXCEPT !.written = TRUE]

(* Document.ordered_list/unordered_list and ListItem.ordered_list/         *)
(* unordered_list of pdf: parent is the ListItem, 0 for the document.      *)
PdfItemFlush(d, i) ==
  IF d.items[i].cur # 0
  THEN [PdfParagraphOutput(d, d.items[i].cur, i) EXCEPT !.items[i].cur = 0]
  ELSE d

PdfList(d, ordered, parent) ==
  [(IF parent = 0 THEN PdfFlush(d) ELSE PdfItemFlush(d, parent))
     EXCEPT !.lobjs = Append(@, [ordered |-> ordered, parent |-> parent,
                                 level |-> 1, flowables |-> <<>>])]

PdfListEnter(d, l) == [d EXCEPT !.lobjs[l].flowables = <<>>]

PdfListExit(d, l) ==
  LET blk == [k |-> "list", lid |-> l, ordered |-> d.lobjs[l].ordered,
              body |-> d.lobjs[l].flowables]
  IN PdfAppend(d, d.lobjs[l].parent, blk)

(* with l.item(): ListItem(l) and its __enter__                            *)
PdfItemEnter(d, l) ==
  [d EXCEPT !.items = Append(@, [list |-> l, flowables |-> <<>>, cur |-> 0,
                                 first_paragraph |-> TRUE])]

PdfItemExit(d, i) ==
  LET d1 == PdfItemFlush(d, i)
  IN [d1 EXCEPT !.lobjs[d1.items[i].list].flowables =
                   Append(@, [k |-> "listitem", iid |-> i,
                              body |-> d1.items[i].flowables])]

PdfItemParagraph(d, i, kind, hasText, txt) ==
  LET d1 == PdfItemFlush(d, i)
      p == NewId(d1)
      d2 == [PdfNewParagraph(d1, kind) EXCEPT !.items[i].cur = p]
  IN IF hasText THEN PdfAdd(d2, p, txt, FALSE) ELSE d2

(* ----------------------------------------------------------------- epub *)
EpubParagraphOutput(d, p) ==
  IF d.pars[p].buf = <<>> THEN d
  ELSE LET buf == IF d.paragraph_numbers
                  THEN <<[t |-> "text", txt |-> Label(d.paragraphs_count)]>>
                       \o d.pars[p].buf
                  ELSE d.pars[p].buf
       IN [d EXCEPT !.out = Append(@, [k |-> "par", pid |-> p,
                                       kind |-> d.pars[p].kind,
                                       anchor |-> d.paragraphs_count, body |-> buf]),
                    !.pars[p].buf = <<>>]

EpubFlush(d) ==
  IF d.cur # 0 THEN [EpubParagraphOutput(d, d.cur) EXCEPT !.cur = 0] ELSE d

EpubAdd(d, p, txt, raw) ==
  [d EXCEPT !.pars[p].buf =
     (IF raw THEN @ ELSE Append(@, [t |-> "sep"])) \o <<[t |-> "text", txt |-> txt]>>]

EpubStyleEnter(d, p, s) ==
  [d EXCEPT !.pars[p].buf = Append(@, [t |-> "open", s |-> s])]

EpubStyleExit(d, p, s) ==
  [d EXCEPT !.pars[p].buf = Append(@, [t |-> "close", s |-> s])]

EpubThematicBreak(d) == [EpubFlush(d) EXCEPT !.out = Append(@, [k |-> "hr"])]

EpubNewParagraph(d, kind) ==
  [BaseParagraphInit(d) EXCEPT !.pars = Append(@, ParObject(kind))]

EpubDocParagraph(d, kind, hasText, txt, tb) ==
  LET d1 == EpubFlush(d)
      d2 == IF tb THEN EpubThematicBreak(d1) ELSE d1
      p == NewId(d2)
      d3 == [EpubNewParagraph(d2, kind) EXCEPT !.cur = p]
  IN IF hasText THEN EpubAdd(d3, p, txt, FALSE) ELSE d3

EpubPagebreak(d) == [EpubFlush(d) EXCEPT !.out = Append(@, [k |-> "pagebreak"])]

EpubSection(d) == BaseSectionInit(d)

(* Section.__enter__ of epub, which supersedes the base method: a section  *)
(* of level 1 closes the chapter file being written and opens its own.     *)
EpubSectionEnter(d, s, sub) ==
  LET d1 == [EpubFlush(d) EXCEPT !.sections_counts = Append(@, 0)]
      d2 == IF section_level(d1) <= 1
            THEN LET d11 == IF d1.out # <<>>
                            THEN [d1 EXCEPT !.chapters[Len(d1.chapters)].content = d1.out,
                                            !.out = <<>>]
                            ELSE d1
                 IN [d11 EXCEPT !.filename = number(d1),
                                !.chapters = Append(@, [file |-> number(d1),
                                                        content |-> <<>>])]
            ELSE d1
      d3 == [d2 EXCEPT !.out = Append(@, title(d2, s))]
  IN IF sub THEN [d3 EXCEPT !.out = Append(@, Subheading(d3, s))] ELSE d3

EpubWrite(d) ==
  LET d1 == EpubFlush(d)
      d2 == IF d1.out # <<>>
            THEN [d1 EXCEPT !.chapters[Len(d1.chapters)].content = d1.out]
            ELSE d1
  IN [d2 EXCEPT !.filename = <<-1>>, !.written = TRUE]

EpubItemFlush(d, i) ==
  IF d.items[i].cur # 0
  THEN [EpubParagraphOutput(d, d.items[i].cur) EXCEPT !.items[i].cur = 0]
  ELSE d

EpubList(d, ordered, parent) ==
  [(IF parent = 0 THEN EpubFlush(d) ELSE EpubItemFlush(d, parent))
     EXCEPT !.lobjs = Append(@, [ordered |-> ordered, parent |-> parent,
                                 level |-> 1, flowables |-> <<>>])]

EpubListEnter(d, l) ==
  [d EXCEPT !.out = Append(@, [k |-> "list_open", lid |-> l,
                               ordered |-> d.lobjs[l].ordered])]

EpubListExit(d, l) ==
  [d EXCEPT !.out = Append(@, [k |-> "list_close", lid |-> l,
                               ordered |-> d.lobjs[l].ordered])]

EpubItemEnter(d, l) ==
  [d EXCEPT !.out = Append(@, [k |-> "item_open", iid |-> Len(d.items) + 1]),
            !.items = Append(@, [list |-> l, flowables |-> <<>>, cur |-> 0,
                                 first_paragraph |-> TRUE])]

EpubItemExit(d, i) ==
  [EpubItemFlush(d, i) EXCEPT !.out = Append(@, [k |-> "item_close", iid |-> i])]

EpubItemParagraph(d, i, kind, hasText, txt) ==
  LET d1 == EpubItemFlush(d, i)
      p == NewId(d1)
      d2 == [EpubNewParagraph(d1, kind) EXCEPT !.items[i].cur = p]
  IN IF hasText THEN EpubAdd(d2, p, txt, FALSE) ELSE d2

(* ----------------------------------------------------------------- docx *)
(* set_font_style: the run carries every style whose counter is not zero.  *)
DocxRun(d, p, sep, txt) ==
  [t |-> "run", sep |-> sep, txt |-> txt,
   st |-> {s \in StyleNames : d.pars[p].style[s] > 0}]

DocxAdd(d, p, txt, raw) ==
  [d EXCEPT !.pars[p].buf =
              Append(@, DocxRun(d, p, ~raw /\ d.pars[p].line_started, txt)),
            !.pars[p].line_started = TRUE]

DocxStyleEnter(d, p, s) == [d EXCEPT !.pars[p].style[s] = @ + 1]

(* the exit of a style that puts the style off *)
DocxStyleExitOff(d, p, s) == [d EXCEPT !.pars[p].style[s] = 0]

DocxStyleExit(d, p, s) == [d EXCEPT !.pars[p].style[s] = @ - 1]

(* Paragraph.__init__ of docx: the paragraph enters the document body at   *)
(* once; the runs added later go to that paragraph in place.               *)
DocxNewParagraph(d, kind) ==
  LET p == NewId(d)
      d1 == [BaseParagraphInit(d) EXCEPT !.pars = Append(@, ParObject(kind)),
                                         !.out = Append(@, [k |-> "par", pid |-> p,
                                                            kind |-> kind])]
  IN IF d1.paragraph_numbers
     THEN DocxAdd(d1, p, Label(d1.paragraphs_count), FALSE)
     ELSE d1

DocxThematicBreak(d) == [d EXCEPT !.out = Append(@, [k |-> "hr"])]

DocxDocParagraph(d, kind, hasText, txt, tb) ==
  LET d1 == IF tb THEN DocxThematicBreak(d) ELSE d
      p == NewId(d1)
      d2 == DocxNewParagraph(d1, kind)
  IN IF hasText THEN DocxAdd(d2, p, txt, FALSE) ELSE d2

(* pagebreak that adds no page break *)
DocxPagebreakOmitted(d) == d

DocxPagebreak(d) == [d EXCEPT !.out = Append(@, [k |-> "pagebreak"])]

DocxInitializeToc(d) ==
  IF d.toc_level = 0 \/ d.toc THEN d
  ELSE [d EXCEPT !.out = @ \o <<[k |-> "pagebreak"], [k |-> "contents"], [k |-> "toc"]>>,
                 !.toc = TRUE]

DocxSection(d) == DocxInitializeToc(BaseSectionInit(d))

DocxSectionEnter(d, s, sub) ==
  LET d1 == BaseSectionEnter(d)
      d2 == IF section_level(d1) <= 1 THEN DocxPagebreak(d1) ELSE d1
      d3 == [d2 EXCEPT !.out = Append(@, title(d2, s))]
      d4 == IF sub THEN [d3 EXCEPT !.out = Append(@, Subheading(d3, s))] ELSE d3
  IN IF section_level(d4) <= d4.toc_level
     THEN [d4 EXCEPT !.toc_rows = Append(@, [sec |-> s, text |-> title(d4, s),
                                             page |-> d4.page.docx])]
     ELSE d4

DocxWrite(d) == [d EXCEPT !.written = TRUE]

DocxList(d, ordered, parent) ==
  [d EXCEPT !.lobjs = Append(@, [ordered |-> ordered, parent |-> parent,
                                 level |-> IF parent = 0 THEN 1
                                           ELSE d.lobjs[d.items[parent].list].level + 1,
                                 flowables |-> <<>>])]

DocxItemEnter(d, l) ==
  [d EXCEPT !.items = Append(@, [list |-> l, flowables |-> <<>>, cur |-> 0,
                                 first_paragraph |-> TRUE])]

(* ListItem.paragraph and ListItem.quote of docx: quote sets first_quote,  *)
(* an attribute nothing reads, and leaves first_paragraph as it was.       *)
DocxItemParagraph(d, i, kind, hasText, txt) ==
  LET l == d.lobjs[d.items[i].list]
      first == IF l.ordered THEN "List Number" ELSE "List Bullet"
      name == IF d.items[i].first_paragraph THEN first ELSE "List Continue"
      cls == [style |-> IF kind = Quote THEN name \o " Quote" ELSE name,
              level |-> l.level]
      d1 == IF kind = Quote THEN d ELSE [d EXCEPT !.items[i].first_paragraph = FALSE]
      p == NewId(d1)
      d2 == DocxNewParagraph(d1, cls)
  IN IF hasText THEN DocxAdd(d2, p, txt, FALSE) ELSE d2

(* -------------------------------------------------- the three backends *)
(* opus.get_document picks the Document class; the calls below go to the   *)
(* methods of the class picked.                                            *)
Flush(b, d) ==
  CASE b = "pdf" -> PdfFlush(d)
    [] b = "epub" -> EpubFlush(d)
    [] OTHER -> d

Add(b, d, p, txt, raw) ==
  CASE b = "pdf" -> PdfAdd(d, p, txt, raw)
    [] b = "epub" -> EpubAdd(d, p, txt, raw)
    [] OTHER -> DocxAdd(d, p, txt, raw)

StyleEnter(b, d, p, s) ==
  CASE b = "pdf" -> PdfStyleEnter(d, p, s)
    [] b = "epub" -> EpubStyleEnter(d, p, s)
    [] OTHER -> DocxStyleEnter(d, p, s)

StyleExit(b, d, p, s) ==
  CASE b = "pdf" -> PdfStyleExit(d, p, s)
    [] b = "epub" -> EpubStyleExit(d, p, s)
    [] OTHER -> DocxStyleExit(d, p, s)

ThematicBreak(b, d) ==
  CASE b = "pdf" -> PdfThematicBreak(d)
    [] b = "epub" -> EpubThematicBreak(d)
    [] OTHER -> DocxThematicBreak(d)

DocParagraph(b, d, kind, hasText, txt, tb) ==
  CASE b = "pdf" -> PdfDocParagraph(d, kind, hasText, txt, tb)
    [] b = "epub" -> EpubDocParagraph(d, kind, hasText, txt, tb)
    [] OTHER -> DocxDocParagraph(d, kind, hasText, txt, tb)

Pagebreak(b, d) ==
  CASE b = "pdf" -> PdfPagebreak(d)
    [] b = "epub" -> EpubPagebreak(d)
    [] OTHER -> DocxPagebreak(d)

Section(b, d) ==
  CASE b = "pdf" -> PdfSection(d)
    [] b = "epub" -> EpubSection(d)
    [] OTHER -> DocxSection(d)

SectionEnter(b, d, s, sub) ==
  CASE b = "pdf" -> PdfSectionEnter(d, s, sub)
    [] b = "epub" -> EpubSectionEnter(d, s, sub)
    [] OTHER -> DocxSectionEnter(d, s, sub)

Write(b, d) ==
  CASE b = "pdf" -> PdfWrite(d)
    [] b = "epub" -> EpubWrite(d)
    [] OTHER -> DocxWrite(d)

List(b, d, ordered, parent) ==
  CASE b = "pdf" -> PdfList(d, ordered, parent)
    [] b = "epub" -> EpubList(d, ordered, parent)
    [] OTHER -> DocxList(d, ordered, parent)

ListEnter(b, d, l) ==
  CASE b = "pdf" -> PdfListEnter(d, l)
    [] b = "epub" -> EpubListEnter(d, l)
    [] OTHER -> d

ListExit(b, d, l) ==
  CASE b = "pdf" -> PdfListExit(d, l)
    [] b = "epub" -> EpubListExit(d, l)
    [] OTHER -> d

ItemEnter(b, d, l) ==
  CASE b = "pdf" -> PdfItemEnter(d, l)
    [] b = "epub" -> EpubItemEnter(d, l)
    [] OTHER -> DocxItemEnter(d, l)

ItemExit(b, d, i) ==
  CASE b = "pdf" -> PdfItemExit(d, i)
    [] b = "epub" -> EpubItemExit(d, i)
    [] OTHER -> d

ItemParagraph(b, d, i, kind, hasText, txt) ==
  CASE b = "pdf" -> PdfItemParagraph(d, i, kind, hasText, txt)
    [] b = "epub" -> EpubItemParagraph(d, i, kind, hasText, txt)
    [] OTHER -> DocxItemParagraph(d, i, kind, hasText, txt)

ItemFlush(b, d, i) ==
  CASE b = "pdf" -> PdfItemFlush(d, i)
    [] b = "epub" -> EpubItemFlush(d, i)
    [] OTHER -> d

(* ---------------------------------------------------------------- pages *)
(* BaseDocument.set_page: pages is the keyword arguments of the call in the *)
(* order given, each a format and a number or None. The result is the      *)
(* document the call leaves and whether it raised ValueError.              *)
Some(n) == [none |-> FALSE, n |-> n]

None == [none |-> TRUE, n |-> 0]

(* set_page that skips a format it does not know, as increment_page does *)
RECURSIVE set_page_lenient(_, _)
set_page_lenient(d, pages) ==
  IF pages = <<>> THEN [d |-> d, raised |-> FALSE]
  ELSE LET h == Head(pages)
       IN IF h.format \notin DOMAIN d.page \/ h.number.none
          THEN set_page_lenient(d, Tail(pages))
          ELSE set_page_lenient([d EXCEPT !.page[h.format] = h.number.n], Tail(pages))

RECURSIVE set_page(_, _)
set_page(d, pages) ==
  IF pages = <<>> THEN [d |-> d, raised |-> FALSE]
  ELSE LET h == Head(pages)
       IN IF h.format \notin DOMAIN d.page THEN [d |-> d, raised |-> TRUE]
          ELSE IF h.number.none THEN set_page(d, Tail(pages))
          ELSE set_page([d EXCEPT !.page[h.format] = h.number.n], Tail(pages))


(* Section.set_page of docx that writes the page into every row *)
DocxSectionSetPageAll(d, s, pages) ==
  LET r == set_page(d, pages)
  IN IF r.raised THEN r.d
     ELSE [r.d EXCEPT !.toc_rows =
             [i \in 1..Len(@) |-> [@[i] EXCEPT !.page = r.d.page.docx]]]

(* Section.set_page of docx: set_page of the document, then the page of    *)
(* docx goes into the row the section has in the contents table, if it has *)
(* one; the ValueError of set_page leaves the row alone.                   *)
DocxSectionSetPage(d, s, pages) ==
  LET r == set_page(d, pages)
  IN IF r.raised THEN r.d
     ELSE [r.d EXCEPT !.toc_rows =
             [i \in 1..Len(@) |->
                IF @[i].sec = s THEN [@[i] EXCEPT !.page = r.d.page.docx] ELSE @[i]]]

(* BaseSection.set_page, which pdf and epub keep: set_page of the document. *)
SectionSetPage(b, d, s, pages) ==
  IF b = "docx" THEN DocxSectionSetPage(d, s, pages) ELSE set_page(d, pages).d

(* BaseDocument.increment_page: the KeyError of a format the document does *)
(* not have is passed over.                                                *)
increment_page(d, format) ==
  IF format \in DOMAIN d.page THEN [d EXCEPT !.page[format] = @ + 1] ELSE d
(* ----------------------------------------------------------- references *)
(* Reference keys as they are written in a citation: a and b name items of *)
(* the registry, A and B are the same keys in upper case, z names no item. *)
Spellings == {"a", "A", "B", "z"}

(* str.casefold on these keys.                                             *)
casefold(s) ==
  CASE s = "A" -> "a"
    [] s = "B" -> "b"
    [] OTHER -> s

(* The order of Python strings, here of one character: by code point.      *)
CodePoint == [A |-> 65, B |-> 66, a |-> 97, b |-> 98, c |-> 99, z |-> 122]

RECURSIVE sorted(_)
sorted(S) ==
  IF S = {} THEN <<>>
  ELSE LET m == CHOOSE x \in S : \A y \in S : CodePoint[x] <= CodePoint[y]
       IN <<m>> \o sorted(S \ {m})

(* References.__contains__ and the lookup of __getitem__.                  *)
ReferencesContains(r, reference) == casefold(reference) \in r.items

(* References.__iter__: the items it yields, each named by its key.        *)
ReferencesIter(r) ==
  LET keys == sorted(r.used) IN [i \in 1..Len(keys) |-> casefold(keys[i])]

(* bool(references), which Python takes from __len__ when there is one.    *)
ReferencesTruth(r) == r.bound /\ Cardinality(r.items) > 0

(* DefaultReferenceFormatter.add_short. *)
AddShort(b, d, p, item, raw) ==
  LET d1 == StyleEnter(b, d, p, "i")
      d2 == Add(b, d1, p, [w |-> "refkey", key |-> item], raw)
      d3 == StyleExit(b, d2, p, "i")
  IN Add(b, d3, p, [w |-> "reftitle", key |-> item], FALSE)

(* References.add: the placeholder for a key that names no item, else the  *)
(* key as written goes to used and the short form is written.              *)
ReferencesAdd(b, d, p, reference, raw) ==
  IF ~ReferencesContains(d.references, reference)
  THEN Add(b, d, p, [w |-> "ref?", key |-> reference], FALSE)
  ELSE AddShort(b, [d EXCEPT !.references.used = @ \cup {reference}], p,
                casefold(reference), raw)

(* BaseParagraph.reference. *)
ParagraphReference(b, d, p, name, raw) ==
  IF ReferencesTruth(d.references)
  THEN ReferencesAdd(b, d, p, name, raw)
  ELSE Add(b, d, p, [w |-> "name", key |-> name], raw)

(* DefaultReferenceFormatter.add_full: a paragraph of its own for the      *)
(* item; the texts it adds after the first are left out.                   *)
AddFull(b, d, item) ==
  DocParagraph(b, d, Normal, TRUE, [w |-> "reffull", key |-> item], FALSE)

RECURSIVE AddFullAll(_, _, _)
AddFullAll(b, d, items) ==
  IF items = <<>> THEN d
  ELSE AddFullAll(b, AddFull(b, d, Head(items)), Tail(items))

(* The ValueError of output_references, raised after the flush.            *)
OutputReferencesRaises(d) == ~d.references.bound

(* output_references that takes a missing registry for an empty one *)
OutputReferencesUnchecked(b, d, s, pages) ==
  LET d2 == NoNumbersEnter(set_page(Flush(b, d), pages).d)
      d3 == SectionEnter(b, Section(b, d2), s, FALSE)
  IN NoNumbersExit(Flush(b, BaseSectionExit(d3)))

(* BaseDocument.output_references; s is the Section object it makes.       *)
OutputReferences(b, d, s, pages) ==
  LET d1 == Flush(b, d)
  IN IF OutputReferencesRaises(d1) \/ d1.references.used = {} THEN d1
     ELSE IF set_page(d1, pages).raised THEN set_page(d1, pages).d
     ELSE LET d2 == NoNumbersEnter(set_page(d1, pages).d)
              d3 == SectionEnter(b, Section(b, d2), s, FALSE)
              d4 == AddFullAll(b, d3, ReferencesIter(d3.references))
          IN NoNumbersExit(Flush(b, BaseSectionExit(d4)))

(* ----------------------------------------------------------------- index *)
(* x or y of Python on two strings.                                        *)
Or(x, y) == IF x = "" THEN y ELSE x

(* BaseDocument.location, a number, and Document.location of epub, a       *)
(* number with the name of the chapter file; file is empty where the       *)
(* backend has the number alone.                                           *)
Location(b, d) ==
  [n |-> d.paragraphs_count, file |-> IF b = "epub" THEN d.filename ELSE <<>>]

(* The order of the file names as strings: the section files by their      *)
(* number, then nav.xhtml, then title_page.xhtml.                          *)
FileClass(f) ==
  CASE f = <<0>> -> 2
    [] f = <<-1>> -> 1
    [] OTHER -> 0

FileLess(f, g) ==
  \/ FileClass(f) < FileClass(g)
  \/ /\ FileClass(f) = 0 /\ FileClass(g) = 0
     /\ f # <<>> /\ g # <<>>
     /\ f[1] < g[1]

(* The order of Python on numbers and on tuples of a number and a string.  *)
LocationLess(x, y) == x.n < y.n \/ (x.n = y.n /\ FileLess(x.file, y.file))

RECURSIVE sorted_locations(_)
sorted_locations(S) ==
  IF S = {} THEN <<>>
  ELSE LET m == CHOOSE x \in S : \A y \in S \ {x} : LocationLess(x, y)
       IN <<m>> \o sorted_locations(S \ {m})

(* add_indexed that makes an entry for every occurrence *)
add_indexed_apart(b, d, canonical) ==
  [d EXCEPT !.indexed = Append(@, [term |-> canonical,
                                   locations |-> {Location(b, d)}])]

(* BaseDocument.add_indexed; the dict indexed is kept as its entries in    *)
(* the order of insertion.                                                 *)
add_indexed(b, d, canonical) ==
  LET at == {i \in 1..Len(d.indexed) : d.indexed[i].term = canonical}
  IN IF at = {}
     THEN [d EXCEPT !.indexed = Append(@, [term |-> canonical,
                                           locations |-> {Location(b, d)}])]
     ELSE [d EXCEPT !.indexed[CHOOSE i \in at : TRUE].locations =
                      @ \cup {Location(b, d)}]

(* Paragraph.indexed of the three backends: the blank, the term            *)
(* underlined, then add_indexed of the document.                           *)
Indexed(b, d, p, text, canonical, raw) ==
  LET d1 == IF b = "docx" \/ raw THEN d
            ELSE [d EXCEPT !.pars[p].buf = Append(@, [t |-> "sep"])]
      d2 == Add(b, StyleEnter(b, d1, p, "u"), p,
                [w |-> "indexed", key |-> text], b # "docx" \/ raw)
  IN add_indexed(b, StyleExit(b, d2, p, "u"), Or(canonical, text))

(* Paragraph.linebreak. *)
Linebreak(b, d, p) ==
  IF b = "docx"
  THEN [d EXCEPT !.pars[p].buf = Append(@, [t |-> "br"]),
                 !.pars[p].line_started = FALSE]
  ELSE [d EXCEPT !.pars[p].buf = Append(@, [t |-> "br"])]

(* sorted(self.indexed.items(), key=lambda i: i[0].casefold()): entries of *)
(* equal keys stay in their order.                                         *)
RECURSIVE sorted_items(_)
sorted_items(items) ==
  IF items = <<>> THEN <<>>
  ELSE LET key(i) == CodePoint[casefold(items[i].term)]
           m == CHOOSE i \in 1..Len(items) :
                  /\ \A j \in 1..Len(items) : key(i) <= key(j)
                  /\ \A j \in 1..(i - 1) : key(i) < key(j)
       IN <<items[m]>>
            \o sorted_items(SubSeq(items, 1, m - 1) \o SubSeq(items, m + 1, Len(items)))

(* output_indexed_location, of the base and of epub: the text holds the    *)
(* location, number and file.                                              *)
RECURSIVE OutputIndexedLocations(_, _, _, _)
OutputIndexedLocations(b, d, p, locations) ==
  IF locations = <<>> THEN d
  ELSE OutputIndexedLocations(b, Add(b, d, p, [w |-> "loc", loc |-> Head(locations)], TRUE),
                              p, Tail(locations))

RECURSIVE OutputIndexedItems(_, _, _, _)
OutputIndexedItems(b, d, p, items) ==
  IF items = <<>> THEN d
  ELSE LET d1 == Add(b, d, p, [w |-> "term", key |-> Head(items).term], FALSE)
           d2 == OutputIndexedLocations(b, d1, p, sorted_locations(Head(items).locations))
       IN OutputIndexedItems(b, Linebreak(b, d2, p), p, Tail(items))

(* BaseDocument.output_indexed; s is the Section object it makes.          *)
OutputIndexed(b, d, s, pages) ==
  LET d1 == Flush(b, d)
  IN IF d1.indexed = <<>> THEN d1
     ELSE IF set_page(d1, pages).raised THEN set_page(d1, pages).d
     ELSE LET d2 == NoNumbersEnter(set_page(d1, pages).d)
              d3 == SectionEnter(b, Section(b, d2), s, FALSE)
              d4 == DocParagraph(b, d3, Normal, FALSE, Word(0), FALSE)
              d5 == OutputIndexedItems(b, d4, NewId(d3), sorted_items(d4.indexed))
          IN NoNumbersExit(BaseSectionExit(Flush(b, d5)))

(* ------------------------------------------------------------------ text *)
(* A text as its characters; blank and newline are the whitespace in them. *)
Chars == {"x", " ", "\n"}

IsSpace(c) == c \in {" ", "\n"}

(* str.split() with no argument: the words between the runs of whitespace. *)
RECURSIVE split(_)
split(text) ==
  IF text = <<>> THEN <<>>
  ELSE IF IsSpace(Head(text)) THEN split(Tail(text))
  ELSE LET n == CHOOSE k \in 1..Len(text) :
                  /\ \A i \in 1..k : ~IsSpace(text[i])
                  /\ (k = Len(text) \/ IsSpace(text[k + 1]))
       IN <<SubSeq(text, 1, n)>> \o split(SubSeq(text, n + 1, Len(text)))

(* The loop of Paragraph.add of docx over the words: a blank after every   *)
(* word but the last.                                                      *)
RECURSIVE join(_)
join(lines) ==
  IF lines = <<>> THEN <<>>
  ELSE IF Len(lines) = 1 THEN lines[1]
  ELSE lines[1] \o <<" ">> \o join(Tail(lines))

(* Paragraph.add on a text given by its characters: docx splits and joins  *)
(* it, pdf and epub append it as it is.                                    *)
AddText(b, d, p, text, raw) ==
  Add(b, d, p, [w |-> "str", s |-> IF b = "docx" THEN join(split(text)) ELSE text],
      raw)

(* ------------------------------------------------------------ footnotes *)
(* BaseParagraph.footnote: the number is taken from the length of the      *)
(* document's list of pending footnotes.                                   *)
FootnoteItem(type, txt, canonical, href) ==
  [type |-> type, text |-> txt, canonical |-> canonical, href |-> href]

FootnoteAdd(d, f, type, txt) ==
  [d EXCEPT !.fobjs[f].items = Append(@, FootnoteItem(type, txt, "", ""))]

(* The em dash of constants.py, as a text.                                 *)
EMDASH == [w |-> "emdash"]

(* The period Footnote.period adds, as a text.                             *)
Period == [w |-> "period"]

(* Footnote.indexed that appends an item of a type of its own *)
FootnoteIndexedAppended(d, f, txt, canonical) ==
  [d EXCEPT !.fobjs[f].items = Append(@, FootnoteItem("Footnote", txt, canonical, ""))]

(* Footnote.indexed: it calls Footnote("indexed", text, canonical=...) in   *)
(* place of FootnoteItem, and Footnote.__init__(document, number) takes no *)
(* canonical: the call raises TypeError and appends nothing.               *)
FootnoteIndexed(d, f, txt, canonical) == d

(* The content operations of Footnote.                                     *)
FootnoteOps ==
  {"add", "raw", "indexed", "link", "reference", "emdash", "period",
   "in_subscript", "in_superscript"}

(* One content operation on footnote object f; txt is its text argument,   *)
(* the name for reference, and the text shown for link.                    *)
FootnoteOp(d, f, op, txt) ==
  CASE op = "add" -> FootnoteAdd(d, f, "add", txt)
    [] op = "raw" -> FootnoteAdd(d, f, "raw", txt)
    [] op = "indexed" -> FootnoteIndexed(d, f, txt, "")
    [] op = "link" ->
         [d EXCEPT !.fobjs[f].items = Append(@, FootnoteItem("link", txt, "", "h"))]
    [] op = "reference" -> FootnoteAdd(d, f, "reference", txt)
    [] op = "emdash" -> FootnoteAdd(d, f, "add", EMDASH)
    [] op = "period" -> FootnoteAdd(d, f, "raw", Period)
    [] op = "in_subscript" -> FootnoteAdd(d, f, "subscript", txt)
    [] op = "in_superscript" -> FootnoteAdd(d, f, "superscript", txt)

(* The item types the match of output_footnotes_list has a case for.       *)
ItemTypes ==
  {"add", "raw", "indexed", "link", "reference", "superscript", "subscript"}

(* A footnote among fs holds an item of no such type: case _ raises        *)
(* NotImplementedError.                                                    *)
Unrecognised(d, fs) ==
  \E i \in 1..Len(fs) :
    \E j \in 1..Len(d.fobjs[fs[i]].items) :
      d.fobjs[fs[i]].items[j].type \notin ItemTypes

(* Paragraph.link: the blank, then the link with the text shown.           *)
Link(b, d, p, href, txt) ==
  Add(b, d, p, [w |-> "link", href |-> href, text |-> txt], FALSE)

FootnoteNumber(d) == Len(d.footnotes) + 1

BaseFootnote(b, d, p, hasText, txt) ==
  LET n == FootnoteNumber(d)
      f == Len(d.fobjs) + 1
      d1 == StyleEnter(b, StyleEnter(b, d, p, "b"), p, "sup")
      d2 == Add(b, d1, p, [w |-> "fn", n |-> n], TRUE)
      d3 == StyleExit(b, StyleExit(b, d2, p, "sup"), p, "b")
      d4 == [d3 EXCEPT !.fobjs = Append(@, [number |-> n, par |-> p, items |-> <<>>]),
                       !.footnotes = Append(@, f)]
  IN IF hasText THEN FootnoteAdd(d4, f, "add", txt) ELSE d4

(* One item of a footnote, dispatched on its type.                         *)
RenderItem(b, d, p, item) ==
  CASE item.type = "add" -> Add(b, d, p, item.text, FALSE)
    [] item.type = "raw" -> Add(b, d, p, item.text, TRUE)
    [] item.type = "superscript" ->
         StyleExit(b, Add(b, StyleEnter(b, d, p, "sup"), p, item.text, FALSE), p, "sup")
    [] item.type = "subscript" ->
         StyleExit(b, Add(b, StyleEnter(b, d, p, "sub"), p, item.text, FALSE), p, "sub")
    [] item.type = "indexed" -> Indexed(b, d, p, item.text, item.canonical, FALSE)
    [] item.type = "link" -> Link(b, d, p, item.href, item.text)
    [] item.type = "reference" -> ParagraphReference(b, d, p, item.text, FALSE)
    [] OTHER -> d

(* The loop over the items, which the item of an unknown type ends.        *)
RECURSIVE RenderItems(_, _, _, _)
RenderItems(b, d, p, items) ==
  IF items = <<>> \/ Head(items).type \notin ItemTypes THEN d
  ELSE RenderItems(b, RenderItem(b, d, p, Head(items)), p, Tail(items))

(* The body of the loop of output_footnotes_list for footnote object f.    *)
RenderFootnote(b, d, f) ==
  LET p == NewId(d)
      d1 == DocParagraph(b, d, Normal, FALSE, Word(0), FALSE)
      d2 == StyleEnter(b, d1, p, "b")
      d3 == Add(b, d2, p, [w |-> "fnlabel", n |-> d.fobjs[f].number], FALSE)
      d4 == StyleExit(b, d3, p, "b")
  IN RenderItems(b, d4, p, d.fobjs[f].items)

RECURSIVE RenderFootnotes(_, _, _)
RenderFootnotes(b, d, fs) ==
  IF fs = <<>> THEN d
  ELSE IF Unrecognised(d, <<Head(fs)>>) THEN RenderFootnote(b, d, Head(fs))
  ELSE RenderFootnotes(b, RenderFootnote(b, d, Head(fs)), Tail(fs))

(* output_footnotes_list that leaves the footnotes in the list *)
output_footnotes_list_kept(b, d) == Flush(b, RenderFootnotes(b, d, d.footnotes))

output_footnotes_list(b, d) ==
  IF Unrecognised(d, d.footnotes) THEN RenderFootnotes(b, d, d.footnotes)
  ELSE Flush(b, [RenderFootnotes(b, d, d.footnotes) EXCEPT !.footnotes = <<>>])

(* output_footnotes of the document raises NotImplementedError.            *)
OutputFootnotesFatal(b, d) ==
  /\ section_level(Flush(b, d)) = 0
  /\ Unrecognised(d, d.footnotes)

(* The assertion of BaseDocument.output_footnotes, made after the flush.   *)
OutputFootnotesFails(b, d) == section_level(Flush(b, d)) # 0

(* output_footnotes without the assertion *)
OutputFootnotesUnasserted(b, d, s, pages) ==
  LET d1 == Flush(b, d)
  IN IF d1.footnotes = <<>> THEN d1
     ELSE IF pages # <<>> THEN NoNumbersExit(NoNumbersEnter(d1))
     ELSE LET d2 == NoNumbersEnter(d1)
              d3 == SectionEnter(b, Section(b, d2), s, FALSE)
          IN NoNumbersExit(BaseSectionExit(output_footnotes_list(b, d3)))

(* output_footnotes that makes its section with no footnote pending *)
OutputFootnotesAlways(b, d, s, pages) ==
  LET d1 == Flush(b, d)
  IN IF section_level(d1) # 0 THEN d1
     ELSE LET d2 == NoNumbersEnter(d1)
              d3 == SectionEnter(b, Section(b, d2), s, FALSE)
          IN NoNumbersExit(BaseSectionExit(output_footnotes_list(b, d3)))

(* BaseDocument.output_footnotes: the assertion fails after the flush; s is *)
(* the Section object it makes. The keyword arguments pages go to          *)
(* section(title, subtitle), which takes none of them: with any given the  *)
(* call raises TypeError inside the no_numbers scope, which is left.       *)
OutputFootnotes(b, d, s, pages) ==
  LET d1 == Flush(b, d)
  IN IF section_level(d1) # 0 \/ d1.footnotes = <<>> THEN d1
     ELSE IF pages # <<>> THEN NoNumbersExit(NoNumbersEnter(d1))
     ELSE LET d2 == NoNumbersEnter(d1)
              d3 == SectionEnter(b, Section(b, d2), s, FALSE)
              d4 == output_footnotes_list(b, d3)
          IN NoNumbersExit(BaseSectionExit(d4))

FootnotesHeading(d) == [k |-> "fnheading", level |-> section_level(d) + 1]

PdfSectionOutputFootnotes(d) ==
  LET d1 == PdfFlush(d)
  IN IF d1.footnotes = <<>> THEN d1
     ELSE LET d2 == PdfThematicBreak(NoNumbersEnter(d1))
              d3 == [d2 EXCEPT !.out = Append(@, FootnotesHeading(d2))]
          IN NoNumbersExit(output_footnotes_list("pdf", d3))

EpubSectionOutputFootnotes(d) ==
  LET d1 == EpubFlush(d)
  IN IF d1.footnotes = <<>> THEN d1
     ELSE LET d2 == EpubThematicBreak(NoNumbersEnter(d1))
              d3 == [d2 EXCEPT !.out = Append(@, FootnotesHeading(d2))]
          IN NoNumbersExit(output_footnotes_list("epub", d3))

DocxSectionOutputFootnotes(d) ==
  IF d.footnotes = <<>> THEN d
  ELSE LET d2 == DocxThematicBreak(NoNumbersEnter(d))
           d3 == [d2 EXCEPT !.out = Append(@, FootnotesHeading(d2))]
       IN NoNumbersExit(output_footnotes_list("docx", d3))

SectionOutputFootnotes(b, d) ==
  CASE b = "pdf" -> PdfSectionOutputFootnotes(d)
    [] b = "epub" -> EpubSectionOutputFootnotes(d)
    [] OTHER -> DocxSectionOutputFootnotes(d)

(* ------------------------------------------------- the calling code *)
(* The calling code holds the Section and List objects it has made (secs,  *)
(* lists) and is inside the with-blocks of scopes, innermost last; a       *)
(* with-block is left in the order Python leaves it, innermost first.      *)
(* parent and ord record where a section was made: the innermost section   *)
(* open then, and its place among the sections made under that one.        *)
calls == Len(log)

OpenSections == {i \in 1..Len(scopes) : scopes[i].k = "section"}

InnermostSection ==
  IF OpenSections = {} THEN 0
  ELSE scopes[CHOOSE i \in OpenSections : \A j \in OpenSections : j <= i].id

OpenItems == {scopes[i].id : i \in {j \in 1..Len(scopes) : scopes[j].k = "item"}}

NextOrd == 1 + Cardinality({s \in 1..Len(secs) : secs[s].parent = InnermostSection})

Alive == ~doc["docx"].written /\ calls < limit

(* The Paragraph objects the calling code has been handed.                 *)
Paragraphs ==
  {log[n].p : n \in {m \in 1..Len(log) :
                       log[m].op \in {"paragraph", "quote", "item_paragraph"}}}

(* The arguments doc.paragraph is tried with: text, thematic_break.        *)
ParagraphArgs ==
  { [text |-> TRUE, tb |-> FALSE], [text |-> FALSE, tb |-> FALSE],
    [text |-> TRUE, tb |-> TRUE] }

StartWith(n, cfgs) ==
  /\ \E cfg \in cfgs : doc = [b \in Backends |-> BaseDocumentInit(cfg)]
  /\ secs = <<>>
  /\ lists = <<>>
  /\ scopes = <<>>
  /\ log = <<>>
  /\ limit = n

Start(n) == StartWith(n, Configs)

Init == Start(MaxCalls)

InitSections == Start(MaxSectionCalls)

InitFootnotes == Start(MaxFootnoteCalls)

(* doc.paragraph(text, thematic_break) *)
ParagraphCall ==
  /\ Alive
  /\ Len(doc["docx"].pars) < MaxParagraphs
  /\ \E a \in ParagraphArgs :
       /\ doc' = [b \in Backends |->
                    DocParagraph(b, doc[b], Normal, a.text, Word(calls + 1), a.tb)]
       /\ log' = Append(log, [op |-> "paragraph", p |-> NewId(doc["docx"]),
                              text |-> a.text])
  /\ UNCHANGED <<secs, lists, scopes, limit>>

(* doc.quote(text) *)
QuoteCall ==
  /\ Alive
  /\ Len(doc["docx"].pars) < MaxParagraphs
  /\ doc' = [b \in Backends |->
               DocParagraph(b, doc[b], Quote, TRUE, Word(calls + 1), FALSE)]
  /\ log' = Append(log, [op |-> "quote", p |-> NewId(doc["docx"]), text |-> TRUE])
  /\ UNCHANGED <<secs, lists, scopes, limit>>

(* The styles of the with-blocks of Paragraph object p that are open.      *)
OpenStyles(p) ==
  {s \in StyleNames :
     \E i \in 1..Len(scopes) :
       scopes[i].k = "style" /\ scopes[i].id = p /\ scopes[i].s = s}

(* p.add(text) and p.raw(text), on any Paragraph object made so far; open  *)
(* records the styles open on p at the call *)
AddCall ==
  /\ Alive
  /\ \E p \in Paragraphs, raw \in BOOLEAN :
       /\ doc' = [b \in Backends |-> Add(b, doc[b], p, Word(calls + 1), raw)]
       /\ log' = Append(log, [op |-> "add", p |-> p, raw |-> raw,
                              open |-> OpenStyles(p)])
  /\ UNCHANGED <<secs, lists, scopes, limit>>

(* s = doc.section(title, subtitle): the Section object is made *)
SectionCall ==
  /\ Alive
  /\ Len(secs) < MaxSections
  /\ \E sub \in BOOLEAN :
       secs' = Append(secs, [st |-> "created", sub |-> sub,
                             parent |-> InnermostSection, ord |-> NextOrd])
  /\ doc' = [b \in Backends |-> Section(b, doc[b])]
  /\ log' = Append(log, [op |-> "section", s |-> Len(secs) + 1])
  /\ UNCHANGED <<lists, scopes, limit>>

(* with s: len records the length of sections_counts at the entry *)
SectionEnterCall ==
  /\ Alive
  /\ \E s \in 1..Len(secs) :
       /\ secs[s].st = "created"
       /\ doc' = [b \in Backends |-> SectionEnter(b, doc[b], s, secs[s].sub)]
       /\ secs' = [secs EXCEPT ![s].st = "open"]
       /\ scopes' = Append(scopes,
                           [k |-> "section", id |-> s,
                            len |-> [b \in Backends |-> Len(doc[b].sections_counts)]])
       /\ log' = Append(log, [op |-> "enter_section", s |-> s])
  /\ UNCHANGED <<lists, limit>>

(* with doc.no_numbers(): at records the two settings at the entry *)
NoNumbersCall ==
  /\ Alive
  /\ Cardinality({i \in 1..Len(scopes) : scopes[i].k = "nonum"}) < MaxNoNumbers
  /\ doc' = [b \in Backends |-> NoNumbersEnter(doc[b])]
  /\ scopes' = Append(scopes,
                      [k |-> "nonum", id |-> 0,
                       at |-> [b \in Backends |->
                                 [sn |-> doc[b].section_numbers,
                                  pn |-> doc[b].paragraph_numbers]]])
  /\ log' = Append(log, [op |-> "no_numbers"])
  /\ UNCHANGED <<secs, lists, limit>>

(* l = doc.ordered_list(), doc.unordered_list(), or the same on an open    *)
(* ListItem (parent): the List object is made *)
ListCall ==
  /\ Alive
  /\ Len(lists) < MaxLists
  /\ \E ordered \in BOOLEAN, parent \in {0} \cup OpenItems :
       /\ doc' = [b \in Backends |-> List(b, doc[b], ordered, parent)]
       /\ lists' = Append(lists, [st |-> "created", parent |-> parent])
       /\ log' = Append(log, [op |-> "list", l |-> Len(lists) + 1, parent |-> parent])
  /\ UNCHANGED <<secs, scopes, limit>>

(* with l: *)
ListEnterCall ==
  /\ Alive
  /\ \E l \in 1..Len(lists) :
       /\ lists[l].st = "created"
       /\ doc' = [b \in Backends |-> ListEnter(b, doc[b], l)]
       /\ lists' = [lists EXCEPT ![l].st = "open"]
       /\ scopes' = Append(scopes, [k |-> "list", id |-> l])
       /\ log' = Append(log, [op |-> "enter_list", l |-> l])
  /\ UNCHANGED <<secs, limit>>

(* with l.item() as i: in the body of the with-block of l *)
ItemEnterCall ==
  /\ Alive
  /\ scopes # <<>>
  /\ Last(scopes).k = "list"
  /\ doc' = [b \in Backends |-> ItemEnter(b, doc[b], Last(scopes).id)]
  /\ scopes' = Append(scopes, [k |-> "item", id |-> Len(doc["docx"].items) + 1])
  /\ log' = Append(log, [op |-> "enter_item", i |-> Len(doc["docx"].items) + 1])
  /\ UNCHANGED <<secs, lists, limit>>

(* i.paragraph(text) and i.quote(text), on an open ListItem *)
ItemParagraphCall ==
  /\ Alive
  /\ Len(doc["docx"].pars) < MaxParagraphs
  /\ \E i \in OpenItems, kind \in {Normal, Quote} :
       /\ doc' = [b \in Backends |->
                    ItemParagraph(b, doc[b], i, kind, TRUE, Word(calls + 1))]
       /\ log' = Append(log, [op |-> "item_paragraph", p |-> NewId(doc["docx"]),
                              i |-> i, text |-> TRUE])
  /\ UNCHANGED <<secs, lists, scopes, limit>>

(* i.flush() on an open ListItem; the ListItem of docx has no such method  *)
(* and the call fails there with nothing changed *)
ItemFlushCall ==
  /\ Alive
  /\ \E i \in OpenItems :
       /\ doc' = [b \in Backends |-> ItemFlush(b, doc[b], i)]
       /\ log' = Append(log, [op |-> "item_flush", i |-> i])
  /\ UNCHANGED <<secs, lists, scopes, limit>>

(* the end of the innermost with-block: __exit__ of what it entered *)
ScopeExitDoc(b, d, f) ==
  CASE f.k = "section" -> BaseSectionExit(d)
    [] f.k = "nonum" -> NoNumbersExit(d)
    [] f.k = "list" -> ListExit(b, d, f.id)
    [] f.k = "item" -> ItemExit(b, d, f.id)
    [] f.k = "style" -> StyleExit(b, d, f.id, f.s)

ScopeExit ==
  /\ Alive
  /\ scopes # <<>>
  /\ LET f == Last(scopes) IN
       /\ doc' = [b \in Backends |-> ScopeExitDoc(b, doc[b], f)]
       /\ secs' = IF f.k = "section" THEN [secs EXCEPT ![f.id].st = "closed"] ELSE secs
       /\ lists' = IF f.k = "list" THEN [lists EXCEPT ![f.id].st = "closed"] ELSE lists
       /\ log' = Append(log, [op |-> "exit", k |-> f.k, id |-> f.id])
  /\ scopes' = Front(scopes)
  /\ UNCHANGED limit

(* An exception raised in the body of the innermost with-block and caught  *)
(* outside the n innermost ones: every __exit__ on the way runs, innermost *)
(* first, and none of them swallows the exception.                         *)
RECURSIVE Unwind(_, _, _)
Unwind(b, d, frames) ==
  IF frames = <<>> THEN d
  ELSE Unwind(b, ScopeExitDoc(b, d, Last(frames)), Front(frames))

RaiseCall ==
  /\ Alive
  /\ \E n \in 1..Len(scopes) :
       LET gone == SubSeq(scopes, Len(scopes) - n + 1, Len(scopes))
           ids(kind) == {gone[i].id : i \in {j \in 1..n : gone[j].k = kind}}
       IN /\ doc' = [b \in Backends |-> Unwind(b, doc[b], gone)]
          /\ secs' = [s \in 1..Len(secs) |->
                        IF s \in ids("section")
                        THEN [secs[s] EXCEPT !.st = "closed"] ELSE secs[s]]
          /\ lists' = [l \in 1..Len(lists) |->
                         IF l \in ids("list")
                         THEN [lists[l] EXCEPT !.st = "closed"] ELSE lists[l]]
          /\ scopes' = SubSeq(scopes, 1, Len(scopes) - n)
          /\ log' = Append(log, [op |-> "raise", gone |-> gone])
  /\ UNCHANGED limit

(* doc.pagebreak() *)
PagebreakCall ==
  /\ Alive
  /\ doc' = [b \in Backends |-> Pagebreak(b, doc[b])]
  /\ log' = Append(log, [op |-> "pagebreak"])
  /\ UNCHANGED <<secs, lists, scopes, limit>>

(* doc.flush() *)
FlushCall ==
  /\ Alive
  /\ doc' = [b \in Backends |-> Flush(b, doc[b])]
  /\ log' = Append(log, [op |-> "flush"])
  /\ UNCHANGED <<secs, lists, scopes, limit>>

(* doc.write(filepath), after the last with-block *)
WriteCall ==
  /\ Alive
  /\ scopes = <<>>
  /\ doc' = [b \in Backends |-> Write(b, doc[b])]
  /\ log' = Append(log, [op |-> "write"])
  /\ UNCHANGED <<secs, lists, scopes, limit>>

(* p.footnote(text), on any Paragraph object made so far *)
FootnoteCall ==
  /\ Alive
  /\ Len(doc["docx"].fobjs) < MaxFootnotes
  /\ \E p \in Paragraphs, hasText \in BOOLEAN :
       /\ doc' = [b \in Backends |->
                    BaseFootnote(b, doc[b], p, hasText, Word(calls + 1))]
       /\ log' = Append(log, [op |-> "footnote", p |-> p,
                              f |-> Len(doc["docx"].fobjs) + 1])
  /\ UNCHANGED <<secs, lists, scopes, limit>>

(* doc.output_footnotes(title): the section it makes is a sibling of the   *)
(* caller's sections *)
OutputFootnotesCall ==
  /\ Alive
  /\ doc' = [b \in Backends |-> OutputFootnotes(b, doc[b], Len(secs) + 1, <<>>)]
  /\ secs' = IF section_level(doc["docx"]) = 0 /\ doc["docx"].footnotes # <<>>
             THEN Append(secs, [st |-> "closed", sub |-> FALSE, parent |-> 0,
                                ord |-> NextOrd])
             ELSE secs
  /\ log' = Append(log, [op |-> "output_footnotes",
                         failed |-> OutputFootnotesFails("docx", doc["docx"]),
                         fatal |-> OutputFootnotesFatal("docx", doc["docx"])])
  /\ UNCHANGED <<lists, scopes, limit>>

(* s.output_footnotes(title), on any Section object made so far *)
SectionOutputFootnotesCall ==
  /\ Alive
  /\ secs # <<>>
  /\ doc' = [b \in Backends |-> SectionOutputFootnotes(b, doc[b])]
  /\ log' = Append(log, [op |-> "section_output_footnotes"])
  /\ UNCHANGED <<secs, lists, scopes, limit>>

(* The keyword arguments set_page is tried with: one or two of them, of    *)
(* different names; html is a format no document has.                      *)
PageKwargs ==
  { [format |-> "pdf", number |-> None], [format |-> "pdf", number |-> Some(2)],
    [format |-> "docx", number |-> None], [format |-> "docx", number |-> Some(2)],
    [format |-> "html", number |-> Some(2)] }

PageArgs ==
  {<<a>> : a \in PageKwargs}
    \cup {p \in PageKwargs \X PageKwargs : p[1].format # p[2].format}

InitPages == Start(MaxPageCalls)

(* doc.set_page with the keyword arguments pages *)
SetPageCall ==
  /\ Alive
  /\ \E pages \in PageArgs :
       /\ doc' = [b \in Backends |-> set_page(doc[b], pages).d]
       /\ log' = Append(log, [op |-> "set_page", pages |-> pages,
                              raised |-> set_page(doc["docx"], pages).raised])
  /\ UNCHANGED <<secs, lists, scopes, limit>>

(* The registries a document is made with: none, one with the items a and  *)
(* b, and one that has loaded no item.                                     *)
RefConfigs ==
  { [sn |-> TRUE, pn |-> TRUE, toc |-> 2, refs |-> r] :
      r \in { NoReferences,
              [bound |-> TRUE, items |-> {"a", "b"}, used |-> {}],
              [bound |-> TRUE, items |-> {}, used |-> {}] } }

InitReferences == StartWith(MaxReferenceCalls, RefConfigs)

(* p.reference(name), on any Paragraph object made so far *)
ReferenceCall ==
  /\ Alive
  /\ \E p \in Paragraphs, name \in Spellings :
       /\ doc' = [b \in Backends |-> ParagraphReference(b, doc[b], p, name, FALSE)]
       /\ log' = Append(log, [op |-> "reference", p |-> p, name |-> name])
  /\ UNCHANGED <<secs, lists, scopes, limit>>

(* doc.output_references(title): the section it makes is a sibling of the  *)
(* caller's sections *)
OutputReferencesCall ==
  /\ Alive
  /\ doc' = [b \in Backends |-> OutputReferences(b, doc[b], Len(secs) + 1, <<>>)]
  /\ secs' = IF doc["docx"].references.bound /\ doc["docx"].references.used # {}
             THEN Append(secs, [st |-> "closed", sub |-> FALSE,
                                parent |-> InnermostSection, ord |-> NextOrd])
             ELSE secs
  /\ log' = Append(log, [op |-> "output_references",
                         raised |-> OutputReferencesRaises(Flush("docx", doc["docx"]))])
  /\ UNCHANGED <<lists, scopes, limit>>

InitIndex == Start(MaxIndexCalls)

(* The terms indexed: a text with its canonical term, which is empty where *)
(* none is given.                                                          *)
IndexArgs ==
  { [text |-> "b", canonical |-> "B"], [text |-> "B", canonical |-> ""],
    [text |-> "c", canonical |-> ""], [text |-> "a", canonical |-> ""] }

(* p.indexed(text, canonical), on any Paragraph object made so far; n      *)
(* records paragraphs_count at the call *)
IndexedCall ==
  /\ Alive
  /\ \E p \in Paragraphs, a \in IndexArgs :
       /\ doc' = [b \in Backends |->
                    Indexed(b, doc[b], p, a.text, a.canonical, FALSE)]
       /\ log' = Append(log, [op |-> "indexed", p |-> p, text |-> a.text,
                              canonical |-> a.canonical,
                              n |-> doc["docx"].paragraphs_count])
  /\ UNCHANGED <<secs, lists, scopes, limit>>

(* doc.output_indexed(title); p records the Paragraph object it makes *)
OutputIndexedCall ==
  /\ Alive
  /\ doc' = [b \in Backends |-> OutputIndexed(b, doc[b], Len(secs) + 1, <<>>)]
  /\ secs' = IF doc["docx"].indexed # <<>>
             THEN Append(secs, [st |-> "closed", sub |-> FALSE,
                                parent |-> InnermostSection, ord |-> NextOrd])
             ELSE secs
  /\ log' = Append(log, [op |-> "output_indexed",
                         p |-> IF doc["docx"].indexed # <<>>
                               THEN NewId(doc["docx"]) ELSE 0])
  /\ UNCHANGED <<lists, scopes, limit>>

InitStyles == Start(MaxStyleCalls)

(* The styles the with-blocks are tried with: bold and italic.             *)
StyleArgs == {"b", "i"}

(* with p.bold(), with p.italic(), on any Paragraph object made so far *)
StyleCall ==
  /\ Alive
  /\ Cardinality({i \in 1..Len(scopes) : scopes[i].k = "style"}) < MaxStyles
  /\ \E p \in Paragraphs, s \in StyleArgs :
       /\ doc' = [b \in Backends |-> StyleEnter(b, doc[b], p, s)]
       /\ scopes' = Append(scopes, [k |-> "style", id |-> p, s |-> s])
       /\ log' = Append(log, [op |-> "style", p |-> p, s |-> s])
  /\ UNCHANGED <<secs, lists, limit>>

InitText == Start(MaxTextCalls)

(* The texts add is tried with: up to MaxLen characters.                   *)
TextArgs == UNION {[1..n -> Chars] : n \in 1..MaxLen}

(* p.add(text) and p.raw(text) with the characters of the text *)
AddTextCall ==
  /\ Alive
  /\ \E p \in Paragraphs, text \in TextArgs, raw \in BOOLEAN :
       /\ doc' = [b \in Backends |-> AddText(b, doc[b], p, text, raw)]
       /\ log' = Append(log, [op |-> "add_text", p |-> p, text |-> text,
                              raw |-> raw])
  /\ UNCHANGED <<secs, lists, scopes, limit>>

InitCount == StartWith(MaxCountCalls, Configs \cup RefConfigs)

InitLabels == Start(MaxLabelCalls)

(* The flush discipline: paragraphs, sections, lists, page breaks, write.  *)
Next ==
  \/ ParagraphCall
  \/ QuoteCall
  \/ AddCall
  \/ SectionCall
  \/ SectionEnterCall
  \/ ListCall
  \/ ListEnterCall
  \/ ItemEnterCall
  \/ ItemParagraphCall
  \/ ItemFlushCall
  \/ ScopeExit
  \/ PagebreakCall
  \/ FlushCall
  \/ WriteCall

Spec == Init /\ [][Next]_vars

(* Sections and numbering. *)
NextSections ==
  \/ SectionCall
  \/ SectionEnterCall
  \/ NoNumbersCall
  \/ ScopeExit
  \/ RaiseCall
  \/ QuoteCall

SpecSections == InitSections /\ [][NextSections]_vars

(* Footnotes. *)
NextFootnotes ==
  \/ QuoteCall
  \/ FootnoteCall
  \/ OutputFootnotesCall
  \/ SectionCall
  \/ SectionEnterCall
  \/ SectionOutputFootnotesCall
  \/ ScopeExit

SpecFootnotes == InitFootnotes /\ [][NextFootnotes]_vars


(* The page table. *)
NextPages ==
  \/ SetPageCall
  \/ SectionCall
  \/ SectionEnterCall
  \/ ScopeExit

SpecPages == InitPages /\ [][NextPages]_vars

(* Citations and the bibliography. *)
NextReferences ==
  \/ QuoteCall
  \/ ReferenceCall
  \/ OutputReferencesCall

SpecReferences == InitReferences /\ [][NextReferences]_vars

(* Indexed terms and the index. *)
NextIndex ==
  \/ QuoteCall
  \/ IndexedCall
  \/ OutputIndexedCall
  \/ SectionCall
  \/ SectionEnterCall
  \/ ScopeExit

SpecIndex == InitIndex /\ [][NextIndex]_vars

(* Styled text. *)
NextStyles ==
  \/ QuoteCall
  \/ AddCall
  \/ StyleCall
  \/ ScopeExit

SpecStyles == InitStyles /\ [][NextStyles]_vars

(* Texts with whitespace. *)
NextText ==
  \/ QuoteCall
  \/ AddTextCall

SpecText == InitText /\ [][NextText]_vars

(* Everything that makes a paragraph, with the calls around it. *)
NextCount ==
  \/ QuoteCall
  \/ ListCall
  \/ ListEnterCall
  \/ ItemEnterCall
  \/ ItemParagraphCall
  \/ ScopeExit
  \/ FootnoteCall
  \/ OutputFootnotesCall
  \/ ReferenceCall
  \/ OutputReferencesCall
  \/ IndexedCall
  \/ OutputIndexedCall
  \/ WriteCall

SpecCount == InitCount /\ [][NextCount]_vars

(* Paragraphs of the document and of list items, and their flushes. *)
NextLabels ==
  \/ QuoteCall
  \/ ListCall
  \/ ListEnterCall
  \/ ItemEnterCall
  \/ ItemParagraphCall
  \/ ScopeExit
  \/ FlushCall

SpecLabels == InitLabels /\ [][NextLabels]_vars


(* Content calls and line breaks on one paragraph. *)
InitSeparators == Start(MaxSeparatorCalls)

(* p.linebreak(), on any Paragraph object made so far *)
LinebreakCall ==
  /\ Alive
  /\ \E p \in Paragraphs :
       /\ doc' = [b \in Backends |-> Linebreak(b, doc[b], p)]
       /\ log' = Append(log, [op |-> "linebreak", p |-> p])
  /\ UNCHANGED <<secs, lists, scopes, limit>>

NextSeparators ==
  \/ ParagraphCall
  \/ AddCall
  \/ IndexedCall
  \/ LinebreakCall

SpecSeparators == InitSeparators /\ [][NextSeparators]_vars

(* The sections at the end of the document, with page numbers. *)
InitEndPages == StartWith(MaxEndCalls, RefConfigs)

(* The page numbers the end-of-document calls are given: one or two        *)
(* formats of the document, each with a number.                            *)
EndPageArgs ==
  {pages \in PageArgs :
     \A i \in 1..Len(pages) : pages[i].format # "html" /\ ~pages[i].number.none}

(* doc.output_footnotes(title, **pages); raised records the TypeError of   *)
(* section(title, **pages) *)
OutputFootnotesPagesCall ==
  /\ Alive
  /\ \E pages \in EndPageArgs :
       /\ doc' = [b \in Backends |->
                    OutputFootnotes(b, doc[b], Len(secs) + 1, pages)]
       /\ log' = Append(log, [op |-> "output_footnotes", pages |-> pages,
                              failed |-> OutputFootnotesFails("docx", doc["docx"]),
                              raised |-> doc["docx"].footnotes # <<>>])
  /\ UNCHANGED <<secs, lists, scopes, limit>>

(* doc.output_references(title, **pages) *)
OutputReferencesPagesCall ==
  /\ Alive
  /\ \E pages \in EndPageArgs :
       /\ doc' = [b \in Backends |->
                    OutputReferences(b, doc[b], Len(secs) + 1, pages)]
       /\ log' = Append(log, [op |-> "output_references", pages |-> pages,
                              raised |-> OutputReferencesRaises(Flush("docx", doc["docx"]))])
  /\ secs' = IF doc["docx"].references.bound /\ doc["docx"].references.used # {}
             THEN Append(secs, [st |-> "closed", sub |-> FALSE,
                                parent |-> InnermostSection, ord |-> NextOrd])
             ELSE secs
  /\ UNCHANGED <<lists, scopes, limit>>

(* doc.output_indexed(title, **pages) *)
OutputIndexedPagesCall ==
  /\ Alive
  /\ \E pages \in EndPageArgs :
       /\ doc' = [b \in Backends |->
                    OutputIndexed(b, doc[b], Len(secs) + 1, pages)]
       /\ log' = Append(log, [op |-> "output_indexed", pages |-> pages,
                              p |-> IF doc["docx"].indexed # <<>>
                                    THEN NewId(doc["docx"]) ELSE 0])
  /\ secs' = IF doc["docx"].indexed # <<>>
             THEN Append(secs, [st |-> "closed", sub |-> FALSE,
                                parent |-> InnermostSection, ord |-> NextOrd])
             ELSE secs
  /\ UNCHANGED <<lists, scopes, limit>>

NextEndPages ==
  \/ QuoteCall
  \/ FootnoteCall
  \/ ReferenceCall
  \/ IndexedCall
  \/ OutputFootnotesPagesCall
  \/ OutputReferencesPagesCall
  \/ OutputIndexedPagesCall

SpecEndPages == InitEndPages /\ [][NextEndPages]_vars

(* The content of footnotes. *)
InitItems == Start(MaxItemCalls)

(* f.add(text), f.raw(text), f.indexed(text), f.link(href, text),          *)
(* f.reference(name), f.emdash(), f.period(), f.in_subscript(text) and     *)
(* f.in_superscript(text), on any Footnote object made so far; raised      *)
(* records the TypeError of indexed *)
FootnoteOpCall ==
  /\ Alive
  /\ \E f \in 1..Len(doc["docx"].fobjs), op \in FootnoteOps :
       /\ doc' = [b \in Backends |->
                    FootnoteOp(doc[b], f, op,
                               IF op = "reference" THEN "a" ELSE Word(calls + 1))]
       /\ log' = Append(log, [op |-> "footnote_op", f |-> f, call |-> op,
                              raised |-> op = "indexed"])
  /\ UNCHANGED <<secs, lists, scopes, limit>>

NextItems ==
  \/ QuoteCall
  \/ FootnoteCall
  \/ FootnoteOpCall
  \/ OutputFootnotesCall

SpecItems == InitItems /\ [][NextItems]_vars

(* The contents table of docx. *)
TocConfigs ==
  { [sn |-> TRUE, pn |-> FALSE, toc |-> t, refs |-> NoReferences] : t \in {0, 1, 2} }

InitToc == StartWith(MaxTocCalls, TocConfigs)

(* The keyword arguments Section.set_page is tried with.                   *)
SectionPageArgs ==
  { <<[format |-> "docx", number |-> Some(2)]>>,
    <<[format |-> "pdf", number |-> Some(2)]>>,
    <<[format |-> "docx", number |-> None]>>,
    <<[format |-> "docx", number |-> Some(2)], [format |-> "html", number |-> Some(2)]>> }

(* s.set_page with the keyword arguments pages, on any Section object     *)
(* made so far *)
SectionSetPageCall ==
  /\ Alive
  /\ \E s \in 1..Len(secs), pages \in SectionPageArgs :
       /\ doc' = [b \in Backends |-> SectionSetPage(b, doc[b], s, pages)]
       /\ log' = Append(log, [op |-> "section_set_page", s |-> s, pages |-> pages,
                              raised |-> set_page(doc["docx"], pages).raised])
  /\ UNCHANGED <<secs, lists, scopes, limit>>

NextToc ==
  \/ SectionCall
  \/ SectionEnterCall
  \/ ScopeExit
  \/ SectionSetPageCall

SpecToc == InitToc /\ [][NextToc]_vars

(* The page table alone. *)
InitPageTable == Start(MaxPageTableCalls)

(* doc.increment_page(format); html is a format no document has *)
IncrementPageCall ==
  /\ Alive
  /\ \E format \in {"pdf", "docx", "epub", "html"} :
       /\ doc' = [b \in Backends |-> increment_page(doc[b], format)]
       /\ log' = Append(log, [op |-> "increment_page", format |-> format])
  /\ UNCHANGED <<secs, lists, scopes, limit>>

NextPageTable ==
  \/ SetPageCall
  \/ IncrementPageCall

SpecPageTable == InitPageTable /\ [][NextPageTable]_vars
(* ------------------------------------------------ what has been output *)
(* The blocks a backend has put out so far, in the order of the written    *)
(* document: the flowables of pdf, the body of docx, and in epub the       *)
(* content of the chapters followed by the buffer not yet joined into one. *)
RECURSIVE ChapterBlocks(_)
ChapterBlocks(chs) ==
  IF chs = <<>> THEN <<>> ELSE Head(chs).content \o ChapterBlocks(Tail(chs))

BookOf(b, d) ==
  IF b = "epub"
  THEN ChapterBlocks(d.chapters) \o (IF d.written THEN <<>> ELSE d.out)
  ELSE d.out

Book(b) == BookOf(b, doc[b])

(* The same with the ListFlowable and ListItem objects of pdf opened up    *)
(* into their opening marker, their blocks and their closing marker.       *)
RECURSIVE Flat(_)
Flat(blocks) ==
  IF blocks = <<>> THEN <<>>
  ELSE LET h == Head(blocks)
       IN (CASE h.k = "list" ->
                  <<[k |-> "list_open", lid |-> h.lid]>> \o Flat(h.body)
                    \o <<[k |-> "list_close", lid |-> h.lid]>>
             [] h.k = "listitem" ->
                  <<[k |-> "item_open", iid |-> h.iid]>> \o Flat(h.body)
                    \o <<[k |-> "item_close", iid |-> h.iid]>>
             [] OTHER -> <<h>>)
          \o Flat(Tail(blocks))

Blocks(b) == Flat(Book(b))

(* The texts of a content, in order, styles and separators left out.       *)
RECURSIVE Texts(_)
Texts(body) ==
  IF body = <<>> THEN <<>>
  ELSE (IF Head(body).t \in {"text", "run"} THEN <<Head(body).txt>> ELSE <<>>)
       \o Texts(Tail(body))

(* The content of a paragraph block: docx keeps it in the paragraph.       *)
Body(b, blk) == IF b = "docx" THEN doc[b].pars[blk.pid].buf ELSE blk.body

(* ------------------------------------------------------------ sections *)
(* The path of a section object: its place among the sections made under   *)
(* the same parent, after the path of the parent.                          *)
RECURSIVE ExpectedPath(_)
ExpectedPath(s) ==
  IF s = 0 THEN <<>> ELSE ExpectedPath(secs[s].parent) \o <<secs[s].ord>>

(* C1: in every backend every numbered section heading put out shows the   *)
(* path of 1-based sibling ordinals of its section: the first section made *)
(* at a level is 1, the next 2, and the numbers restart at 1 under each    *)
(* new parent.                                                             *)
C1_HeadingNumberIsSiblingPath ==
  \A b \in Backends :
    \A i \in 1..Len(Blocks(b)) :
      LET blk == Blocks(b)[i]
      IN (blk.k = "heading" /\ blk.numbered) => blk.num = ExpectedPath(blk.sec)

(* C2: the section level, len(sections_counts) - 1, is in every backend    *)
(* the number of sections entered and not yet exited.                      *)
C2_LevelIsOpenSections ==
  \A b \in Backends : section_level(doc[b]) = Cardinality(OpenSections)

(* a section has been exited inside an outer one that is still open *)
C2_Witness ==
  /\ log # <<>>
  /\ Last(log).op = "exit"
  /\ Last(log).k = "section"
  /\ Cardinality(OpenSections) = 1
  /\ \A b \in Backends : section_level(doc[b]) = 1

(* ------------------------------------------------------ pending output *)
(* The backends that hold a paragraph back until the next flush.           *)
Deferred == {"pdf", "epub"}

(* The pending paragraph of the document (0) or of a ListItem, and the     *)
(* list of blocks an output of it goes to.                                 *)
Slot(d, o) == IF o = 0 THEN d.cur ELSE d.items[o].cur

Target(b, d, o) == IF b = "pdf" /\ o # 0 THEN d.items[o].flowables ELSE BookOf(b, d)

(* The Document or ListItem a call is made on.                             *)
Owner(e) ==
  CASE e.op = "item_paragraph" -> e.i
    [] e.op = "list" -> e.parent
    [] OTHER -> 0

(* In the step being taken, backend b first puts out what was pending on   *)
(* o, whole and before anything else, and o then holds at most the         *)
(* paragraph the step has made.                                            *)
FlushedFirst(b, o) ==
  LET p == Slot(doc[b], o)
      pre == Target(b, doc[b], o)
      post == Target(b, doc'[b], o)
      buf == doc[b].pars[p].buf
  IN /\ (p # 0 /\ buf # <<>>) =>
          /\ Len(post) > Len(pre)
          /\ SubSeq(post, 1, Len(pre)) = pre
          /\ LET blk == post[Len(pre) + 1]
             IN /\ blk.k = "par"
                /\ blk.pid = p
                /\ Len(blk.body) >= Len(buf)
                /\ SubSeq(blk.body, Len(blk.body) - Len(buf) + 1, Len(blk.body)) = buf
          /\ doc'[b].pars[p].buf = <<>>
     /\ Slot(doc'[b], o) \in {0} \cup (Len(doc[b].pars) + 1 .. Len(doc'[b].pars))

(* No paragraph is pending on two of the document and the open ListItems.  *)
OnePending ==
  \A b \in Deferred :
    \A o1, o2 \in {0} \cup OpenItems :
      (o1 # o2 /\ Slot(doc[b], o1) # 0) => Slot(doc[b], o1) # Slot(doc[b], o2)

(* The calls that start a construct, as the specification lists them, with *)
(* paragraph and quote of a ListItem.                                      *)
StartingCalls == {"paragraph", "quote", "section", "pagebreak", "list", "write",
                  "item_paragraph"}

(* The calls of a backend that flush first: Document.section of epub makes *)
(* the Section object without a flush, and Section.__enter__ flushes.      *)
FlushingCalls(b) ==
  IF b = "epub"
  THEN (StartingCalls \ {"section"}) \cup {"enter_section"}
  ELSE StartingCalls

(* C3, as stated: every call that starts a construct (paragraph, quote,    *)
(* section, pagebreak, ordered_list/unordered_list, write) first flushes   *)
(* the pending paragraph, and the document and each open ListItem hold at  *)
(* most one pending paragraph.                                             *)
C3_StartingCallFlushesFirst ==
  /\ []OnePending
  /\ [][\A b \in Deferred :
          Last(log').op \in StartingCalls => FlushedFirst(b, Owner(Last(log')))]_vars

(* C3, as the code has it: the same for paragraph, quote, pagebreak,       *)
(* ordered_list/unordered_list and write in pdf and epub, for section in   *)
(* pdf, and in epub for the entry of the section in place of its making.   *)
C3_FlushingCallFlushesFirst ==
  /\ []OnePending
  /\ [][\A b \in Deferred :
          Last(log').op \in FlushingCalls(b) => FlushedFirst(b, Owner(Last(log')))]_vars

(* a list has been made right after a paragraph with text, which both      *)
(* deferred backends have put out *)
C3_Witness ==
  /\ Len(log) >= 2
  /\ Last(log).op = "list"
  /\ log[Len(log) - 1].op = "paragraph"
  /\ log[Len(log) - 1].text
  /\ \A b \in Deferred :
       /\ doc[b].cur = 0
       /\ \E i \in 1..Len(Blocks(b)) :
            Blocks(b)[i].k = "par" /\ Blocks(b)[i].pid = log[Len(log) - 1].p

(* ------------------------------------------------------ order and loss *)
(* The call that started a block: the one that made the paragraph, entered *)
(* the section, the list or the item, or left the list or the item; 0 for  *)
(* a block no call of the calling code is known for.                       *)
StartedBy(blk) ==
  LET made == {n \in 1..Len(log) :
                 CASE blk.k = "par" ->
                        /\ log[n].op \in {"paragraph", "quote", "item_paragraph"}
                        /\ log[n].p = blk.pid
                   [] blk.k \in {"heading", "subheading"} ->
                        log[n].op = "enter_section" /\ log[n].s = blk.sec
                   [] blk.k = "list_open" ->
                        log[n].op = "enter_list" /\ log[n].l = blk.lid
                   [] blk.k = "item_open" ->
                        log[n].op = "enter_item" /\ log[n].i = blk.iid
                   [] blk.k = "list_close" ->
                        log[n].op = "exit" /\ log[n].k = "list" /\ log[n].id = blk.lid
                   [] blk.k = "item_close" ->
                        log[n].op = "exit" /\ log[n].k = "item" /\ log[n].id = blk.iid
                   [] OTHER -> FALSE}
  IN IF made = {} THEN 0 ELSE CHOOSE n \in made : TRUE

(* C4: in every backend the paragraphs, quotes, section headings and list  *)
(* markers put out stand in the order of the calls that started them; a    *)
(* paragraph started before a section or list is entered stands before the *)
(* heading or the opening marker.                                          *)
C4_OutputInCallOrder ==
  \A b \in Backends :
    \A i, j \in 1..Len(Blocks(b)) :
      LET m == StartedBy(Blocks(b)[i])
          n == StartedBy(Blocks(b)[j])
      IN (i < j /\ m # 0 /\ n # 0) => m <= n

(* The calls that add a text, which is Word of the place of the call.      *)
AddsText(e) ==
  \/ e.op = "add"
  \/ e.op \in {"paragraph", "quote", "item_paragraph"} /\ e.text

(* The texts of all the paragraphs a backend has put out.                  *)
RECURSIVE BlockTexts(_, _)
BlockTexts(b, blocks) ==
  IF blocks = <<>> THEN <<>>
  ELSE (IF Head(blocks).k = "par" THEN Texts(Body(b, Head(blocks))) ELSE <<>>)
       \o BlockTexts(b, Tail(blocks))

Occurrences(seq, x) == Cardinality({i \in 1..Len(seq) : seq[i] = x})

(* C5: once write has completed, every text added to the document is in    *)
(* the output of every backend exactly once.                               *)
C5_EveryTextOnceWhenWritten ==
  \A b \in Backends :
    doc[b].written =>
      \A n \in 1..Len(log) :
        AddsText(log[n]) => Occurrences(BlockTexts(b, Blocks(b)), Word(n)) = 1

(* The Document or ListItem a flush is called on.                          *)
Flushed(e) == IF e.op = "item_flush" THEN e.i ELSE 0

(* C6: a flush of a Document or ListItem with no pending paragraph changes *)
(* nothing in the document; a flush with a pending paragraph that has      *)
(* content leaves that paragraph in the output once, and a second flush    *)
(* right after the first changes nothing.                                  *)
C6_FlushIsIdempotent ==
  [][Last(log').op \in {"flush", "item_flush"} =>
       \A b \in Backends :
         LET o == Flushed(Last(log'))
             p == Slot(doc[b], o)
             post == Target(b, doc'[b], o)
         IN /\ p = 0 => doc'[b] = doc[b]
            /\ (log # <<>> /\ Last(log) = Last(log')) => doc'[b] = doc[b]
            /\ (p # 0 /\ doc[b].pars[p].buf # <<>>) =>
                 Cardinality({i \in 1..Len(post) :
                                post[i].k = "par" /\ post[i].pid = p}) = 1]_vars

(* a paragraph with text has been flushed twice in a row and is in the     *)
(* output of both deferred backends once *)
C6_Witness ==
  /\ Len(log) >= 3
  /\ log[Len(log)].op = "flush"
  /\ log[Len(log) - 1].op = "flush"
  /\ log[Len(log) - 2].op = "paragraph"
  /\ log[Len(log) - 2].text
  /\ \A b \in Deferred :
       Cardinality({i \in 1..Len(Blocks(b)) :
                      /\ Blocks(b)[i].k = "par"
                      /\ Blocks(b)[i].pid = log[Len(log) - 2].p}) = 1

(* ------------------------------------------------------------ footnotes *)
(* C7: the numbers of the footnotes rise in the order the footnotes were   *)
(* made, over the whole build, so that no two footnotes share a number.    *)
C7_FootnoteNumbersRise ==
  \A b \in Backends :
    \A f, g \in 1..Len(doc[b].fobjs) :
      f < g => doc[b].fobjs[f].number < doc[b].fobjs[g].number

(* What output_footnotes_list writes for footnote object f: its number,    *)
(* then the texts of its items.                                            *)
FootnoteTexts(d, f) ==
  <<[w |-> "fnlabel", n |-> d.fobjs[f].number]>>
    \o [i \in 1..Len(d.fobjs[f].items) |-> d.fobjs[f].items[i].text]

(* The footnote paragraphs a backend has put out, each as its texts.       *)
RECURSIVE Rendered(_, _)
Rendered(b, blocks) ==
  IF blocks = <<>> THEN <<>>
  ELSE LET h == Head(blocks)
           t == IF h.k = "par"
                THEN SelectSeq(Texts(Body(b, h)), LAMBDA x : x.w # "label")
                ELSE <<>>
       IN (IF t # <<>> /\ t[1].w = "fnlabel" THEN <<t>> ELSE <<>>)
          \o Rendered(b, Tail(blocks))

(* The last call has run output_footnotes_list.                            *)
FootnotesOutput ==
  /\ log # <<>>
  /\ \/ Last(log).op = "section_output_footnotes"
     \/ Last(log).op = "output_footnotes" /\ ~Last(log).failed

(* C8: the footnotes put out so far, followed by the pending ones, are the *)
(* footnotes made so far, in the order they were made, each once; and      *)
(* output_footnotes_list leaves the list of pending footnotes empty.       *)
C8_FootnotesRenderedOnceInOrder ==
  \A b \in Backends :
    LET d == doc[b]
    IN /\ Rendered(b, Blocks(b))
            \o [i \in 1..Len(d.footnotes) |-> FootnoteTexts(d, d.footnotes[i])]
          = [f \in 1..Len(d.fobjs) |-> FootnoteTexts(d, f)]
       /\ FootnotesOutput => d.footnotes = <<>>

(* two footnotes have been put out by one call, in every backend *)
C8_Witness ==
  /\ FootnotesOutput
  /\ \A b \in Backends :
       /\ Len(doc[b].fobjs) = 2
       /\ Len(Rendered(b, Blocks(b))) = 2
       /\ doc[b].footnotes = <<>>

(* ----------------------------------------------------------- no_numbers *)
InNoNumbers == \E i \in 1..Len(scopes) : scopes[i].k = "nonum"

(* C9: inside a no_numbers scope, nested ones included, section_numbers    *)
(* and paragraph_numbers are both False, and the exit of the scope puts    *)
(* back the values the two had when the scope was entered.                 *)
C9_NoNumbersRestores ==
  /\ [](InNoNumbers =>
          \A b \in Backends : ~doc[b].section_numbers /\ ~doc[b].paragraph_numbers)
  /\ [][(Last(log').op = "exit" /\ Last(log').k = "nonum") =>
          \A b \in Backends :
            /\ doc'[b].section_numbers = Last(scopes).at[b].sn
            /\ doc'[b].paragraph_numbers = Last(scopes).at[b].pn]_vars

(* ------------------------------------------------------ backend parity *)
(* The headings and paragraphs a backend has put out: a heading with its   *)
(* section and number, a paragraph with its label and texts; a paragraph   *)
(* with neither is left out.                                               *)
RECURSIVE View(_, _)
View(b, blocks) ==
  IF blocks = <<>> THEN <<>>
  ELSE LET h == Head(blocks)
       IN (CASE h.k = "heading" ->
                  <<[k |-> "heading", sec |-> h.sec, numbered |-> h.numbered,
                     num |-> h.num]>>
             [] h.k = "par" /\ Texts(Body(b, h)) # <<>> ->
                  <<[k |-> "par", texts |-> Texts(Body(b, h))]>>
             [] OTHER -> <<>>)
          \o View(b, Tail(blocks))

(* C10: once written, pdf and epub agree with docx on paragraphs_count, on *)
(* sections_counts, on the numbers of the footnotes, and on the sequence   *)
(* of headings and paragraphs with their texts and number labels.          *)
C10_BackendsAgreeWhenWritten ==
  \A b \in Deferred :
    doc[b].written =>
      /\ doc[b].paragraphs_count = doc["docx"].paragraphs_count
      /\ doc[b].sections_counts = doc["docx"].sections_counts
      /\ [f \in 1..Len(doc[b].fobjs) |-> doc[b].fobjs[f].number]
           = [f \in 1..Len(doc["docx"].fobjs) |-> doc["docx"].fobjs[f].number]
      /\ View(b, Blocks(b)) = View("docx", Blocks("docx"))

(* ----------------------------------------------------------- exceptions *)
(* C11: when an exception leaves the body of a section scope, __exit__ of  *)
(* the section still runs and pops its level: once the exception is past   *)
(* the scope, sections_counts is as long as it was before the section was  *)
(* entered, in every backend.                                              *)
C11_RaisePopsSectionLevel ==
  [][Last(log').op = "raise" =>
       LET gone == Last(log').gone
       IN \A b \in Backends :
            \A i \in 1..Len(gone) :
              gone[i].k = "section" =>
                Len(Unwind(b, doc[b], SubSeq(gone, i, Len(gone))).sections_counts)
                  = gone[i].len[b]]_vars

(* an exception has left two nested section scopes, and the level is back  *)
(* to what it was before the outer one *)
C11_Witness ==
  /\ log # <<>>
  /\ Last(log).op = "raise"
  /\ Cardinality({i \in 1..Len(Last(log).gone) : Last(log).gone[i].k = "section"}) = 2
  /\ \A b \in Backends : Len(doc[b].sections_counts) = Last(log).gone[1].len[b]

(* C12: Document.output_footnotes called with a section open fails on its  *)
(* assertion, puts out no footnote and leaves the pending footnotes, the   *)
(* footnote objects and the section counters as they were.                 *)
C12_OutputFootnotesInSectionFails ==
  [][(Last(log').op = "output_footnotes" /\ OpenSections # {}) =>
       /\ Last(log').failed
       /\ \A b \in Backends :
            /\ OutputFootnotesFails(b, doc[b])
            /\ doc'[b].footnotes = doc[b].footnotes
            /\ doc'[b].fobjs = doc[b].fobjs
            /\ doc'[b].sections_counts = doc[b].sections_counts
            /\ Rendered(b, Blocks(b))' = Rendered(b, Blocks(b))]_vars

(* output_footnotes has failed inside a section with a footnote pending *)
C12_Witness ==
  /\ log # <<>>
  /\ Last(log).op = "output_footnotes"
  /\ Last(log).failed
  /\ OpenSections # {}
  /\ \A b \in Backends : doc[b].footnotes # <<>>

(* ---------------------------------------------------------------- pages *)
(* The formats a document has a page number for.                           *)
Known(pages) == \A i \in 1..Len(pages) : pages[i].format \in {"pdf", "docx", "epub"}

(* C13: set_page raises its error in the call itself exactly when one of   *)
(* the names it is given is not a backend name of the document (pdf, docx, *)
(* epub), in every backend.                                                *)
C13_SetPageUnknownRaises ==
  [][Last(log').op = "set_page" =>
       /\ Last(log').raised <=> ~Known(Last(log').pages)
       /\ \A b \in Backends :
            set_page(doc[b], Last(log').pages).raised <=> ~Known(Last(log').pages)]_vars

(* set_page has raised on an unknown name that came after a known one *)
C13_Witness ==
  /\ log # <<>>
  /\ Last(log).op = "set_page"
  /\ Last(log).raised
  /\ Len(Last(log).pages) = 2
  /\ Last(log).pages[1].format = "pdf"
  /\ Last(log).pages[2].format = "html"

(* ---------------------------------------------------------- references *)
(* The number of section headings in the output so far.                    *)
Headings(b) ==
  Cardinality({i \in 1..Len(Blocks(b)) : Blocks(b)[i].k = "heading"})

ParTexts(d, p) == Texts(d.pars[p].buf)

(* C15: on a Document with a registry, a citation of a key that names no   *)
(* item adds one placeholder for that key to the paragraph, and the key is *)
(* not in the used set afterwards, which the citation leaves as it was;    *)
(* output_references with an empty used set makes no section.              *)
C15_UndefinedKeyGivesPlaceholder ==
  /\ [][(Last(log').op = "reference" /\ doc["docx"].references.bound
          /\ ~ReferencesContains(doc["docx"].references, Last(log').name)) =>
          \A b \in Backends :
            /\ ParTexts(doc'[b], Last(log').p) =
                 Append(ParTexts(doc[b], Last(log').p),
                        [w |-> "ref?", key |-> Last(log').name])
            /\ doc'[b].references.used = doc[b].references.used
            /\ Last(log').name \notin doc'[b].references.used]_vars
  /\ [][(Last(log').op = "output_references" /\ doc["docx"].references.bound
          /\ doc["docx"].references.used = {}) =>
          \A b \in Backends :
            /\ Headings(b)' = Headings(b)
            /\ doc'[b].sections_counts = doc[b].sections_counts
            /\ doc'[b].toc = doc[b].toc]_vars

(* C16: the items an iteration of the registry yields have each been cited *)
(* at least once, and they come in the sorted order of their keys.         *)
C16_IterationYieldsCitedInKeyOrder ==
  \A b \in Backends :
    LET yielded == ReferencesIter(doc[b].references)
    IN /\ \A i \in 1..Len(yielded) :
            \E n \in 1..Len(log) :
              log[n].op = "reference" /\ casefold(log[n].name) = yielded[i]
       /\ \A i, j \in 1..Len(yielded) :
            i < j => CodePoint[yielded[i]] <= CodePoint[yielded[j]]

(* ---------------------------------------------------------------- index *)
(* The terms and locations of the paragraph output_indexed has written.    *)
IndexTexts(b) ==
  LET put == SelectSeq(Blocks(b), LAMBDA x : x.k = "par" /\ x.pid = Last(log).p)
  IN IF put = <<>> THEN <<>>
     ELSE SelectSeq(Texts(Body(b, put[1])), LAMBDA x : x.w \in {"term", "loc"})

(* The places in the index of the locations listed after the term at i.    *)
Entry(T, i) ==
  {j \in (i + 1)..Len(T) : \A k \in (i + 1)..j : T[k].w = "loc"}

(* The canonical term of a call of indexed.                                *)
CanonicalOf(e) == Or(e.canonical, e.text)

(* C17: the index output_indexed writes has one entry for each canonical   *)
(* term indexed, whatever the texts indexed under it; the entry lists the  *)
(* locations of the term's occurrences in ascending order, none twice; the *)
(* entries come in the alphabetical order of their terms, letter case      *)
(* ignored.                                                                *)
C17_IndexMergedAndSorted ==
  (log # <<>> /\ Last(log).op = "output_indexed" /\ Last(log).p # 0) =>
    \A b \in Backends :
      LET T == IndexTexts(b)
          terms == {i \in 1..Len(T) : T[i].w = "term"}
          occurrences(t) == {n \in 1..Len(log) :
                               log[n].op = "indexed" /\ CanonicalOf(log[n]) = t}
      IN /\ \A i, j \in terms : T[i].key = T[j].key => i = j
         /\ {T[i].key : i \in terms} =
              {CanonicalOf(log[n]) : n \in {m \in 1..Len(log) : log[m].op = "indexed"}}
         /\ \A i \in terms :
              /\ {T[j].loc.n : j \in Entry(T, i)} =
                   {log[n].n : n \in occurrences(T[i].key)}
              /\ \A j, k \in Entry(T, i) :
                   j < k => LocationLess(T[j].loc, T[k].loc)
         /\ \A i, j \in terms :
              i < j => CodePoint[casefold(T[i].key)] <= CodePoint[casefold(T[j].key)]

C17_Witness ==
  /\ log # <<>> /\ Last(log).op = "output_indexed" /\ Last(log).p # 0
  /\ \E m, n \in 1..Len(log) :
       /\ log[m].op = "indexed" /\ log[n].op = "indexed"
       /\ log[m].text # log[n].text
       /\ CanonicalOf(log[m]) = CanonicalOf(log[n])
       /\ log[m].n # log[n].n
  /\ \A b \in Backends :
       \E i \in 1..Len(IndexTexts(b)) : Cardinality(Entry(IndexTexts(b), i)) = 2

(* --------------------------------------------------------------- styles *)
(* The contents a backend holds: of the paragraphs it has put out and of   *)
(* the paragraph pending on the document.                                  *)
Contents(b) ==
  {Body(b, Blocks(b)[i]) : i \in {j \in 1..Len(Blocks(b)) : Blocks(b)[j].k = "par"}}
    \cup (IF b \in Deferred /\ doc[b].cur # 0
          THEN {doc[b].pars[doc[b].cur].buf} ELSE {})

(* The styles the text at place i of a content is rendered in: those set   *)
(* on the run in docx, those of the tags open around it in pdf and epub.   *)
StylesAt(b, body, i) ==
  IF b = "docx" THEN body[i].st
  ELSE {s \in StyleNames :
          Cardinality({j \in 1..(i - 1) : body[j].t = "open" /\ body[j].s = s})
            > Cardinality({j \in 1..(i - 1) : body[j].t = "close" /\ body[j].s = s})}

(* The styles open on the paragraph at call n, which added a text.         *)
OpenAt(n) == IF log[n].op = "add" THEN log[n].open ELSE {}

(* C18: every text of a paragraph is rendered in exactly the styles that   *)
(* had a with-block open on the paragraph when the text was added, however *)
(* the blocks nest: a style opened twice stays on when the inner block is  *)
(* left, and a text added with no block open has no style.                 *)
C18_TextCarriesOpenStyles ==
  \A b \in Backends :
    \A body \in Contents(b) :
      \A i \in 1..Len(body) :
        (body[i].t \in {"text", "run"} /\ body[i].txt.w = "word") =>
          StylesAt(b, body, i) = OpenAt(body[i].txt.n)

C18_Witness ==
  /\ Len(log) >= 5
  /\ log[Len(log) - 3].op = "style" /\ log[Len(log) - 3].s = "b"
  /\ log[Len(log) - 2].op = "style" /\ log[Len(log) - 2].s = "b"
  /\ log[Len(log) - 2].p = log[Len(log) - 3].p
  /\ log[Len(log) - 1].op = "exit" /\ log[Len(log) - 1].k = "style"
  /\ Last(log).op = "add" /\ Last(log).p = log[Len(log) - 2].p
  /\ Last(log).open = {"b"}
  /\ \A b \in Backends :
       \E body \in Contents(b) :
         \E i \in 1..Len(body) :
           /\ body[i].t \in {"text", "run"}
           /\ body[i].txt = Word(Len(log))
           /\ StylesAt(b, body, i) = {"b"}

(* ----------------------------------------------------------- whitespace *)
(* A text with every run of whitespace replaced by one blank.              *)
RECURSIVE Collapsed(_)
Collapsed(text) ==
  IF text = <<>> THEN <<>>
  ELSE IF IsSpace(Head(text))
  THEN IF Len(text) > 1 /\ IsSpace(text[2]) THEN Collapsed(Tail(text))
       ELSE <<" ">> \o Collapsed(Tail(text))
  ELSE <<Head(text)>> \o Collapsed(Tail(text))

(* C19: add of a text leaves every backend with the content that add of    *)
(* the same text with each run of whitespace replaced by one blank leaves, *)
(* and the content added has no newline and no two blanks in a row.        *)
C19_AddCollapsesWhitespace ==
  [][Last(log').op = "add_text" =>
       \A b \in Backends :
         /\ doc'[b] = AddText(b, doc[b], Last(log').p, Collapsed(Last(log').text),
                              Last(log').raw)
         /\ LET s == Last(Texts(doc'[b].pars[Last(log').p].buf)).s
            IN \A i \in 1..Len(s) :
                 /\ s[i] # "\n"
                 /\ (i > 1 /\ s[i] = " ") => s[i - 1] # " "]_vars

(* ------------------------------------------------------ paragraphs_count *)
(* The calls that make one paragraph or quote, of the document or of a     *)
(* ListItem, and the output operations, which make the paragraphs of what  *)
(* they write.                                                             *)
ParagraphMakers == {"paragraph", "quote", "item_paragraph"}

OutputOperations == {"output_footnotes", "section_output_footnotes",
                     "output_references", "output_indexed"}

(* C20: paragraphs_count never goes down; a call that makes a paragraph or *)
(* quote raises it by one, an output operation of footnotes, references or *)
(* index raises it by one for every paragraph it makes, and no other call  *)
(* changes it.                                                             *)
C20_ParagraphsCountCountsParagraphs ==
  [][\A b \in Backends :
       LET made == Len(doc'[b].pars) - Len(doc[b].pars)
           more == doc'[b].paragraphs_count - doc[b].paragraphs_count
       IN /\ more >= 0
          /\ more = made
          /\ Last(log').op \in ParagraphMakers => more = 1
          /\ Last(log').op \notin ParagraphMakers \cup OutputOperations => more = 0]_vars

C20_Witness ==
  /\ Len(log) >= 3
  /\ Last(log).op \in {"output_footnotes", "output_references", "output_indexed"}
  /\ log[Len(log) - 1].op \in {"footnote", "reference", "indexed"}
  /\ \A b \in Backends : doc[b].paragraphs_count = 2 /\ Len(doc[b].pars) = 2

(* ------------------------------------------------- footnotes at an exit *)
(* The step is the exit of a section scope.                                *)
SectionExitStep == Last(log').op = "exit" /\ Last(log').k = "section"

Labels(b, blk) ==
  LET T == Texts(Body(b, blk))
  IN {T[i].n : i \in {j \in 1..Len(T) : T[j].w = "label"}}

(* C22: with paragraph numbering enabled, every paragraph put out carries  *)
(* one numeric label, and it is the ordinal of the paragraph's creation,   *)
(* which is the value of paragraphs_count right after the creation: the    *)
(* Paragraph objects are named by that ordinal.                            *)
C22_LabelIsCreationOrdinal ==
  \A b \in Backends :
    \A i \in 1..Len(Blocks(b)) :
      (Blocks(b)[i].k = "par" /\ doc[b].paragraph_numbers) =>
        Labels(b, Blocks(b)[i]) = {Blocks(b)[i].pid}

(* ------------------------------------------------------- index locations *)
(* The chapter files of epub that hold Paragraph object p: the file of the *)
(* chapter it was put out to, or the file being written.                   *)
FilesOf(p) ==
  LET d == doc["epub"]
      holds(content) == \E i \in 1..Len(content) :
                          content[i].k = "par" /\ content[i].pid = p
  IN {d.chapters[c].file : c \in {x \in 1..Len(d.chapters) : holds(d.chapters[x].content)}}
       \cup (IF holds(d.out) \/ d.cur = p THEN {d.filename} ELSE {})

(* C23: the locations recorded for a canonical term are the ordinals of    *)
(* the paragraphs the term was indexed in, in epub each with the chapter   *)
(* file that holds the paragraph.                                          *)
C23_LocationIsParagraphOfTerm ==
  \A b \in Backends :
    \A i \in 1..Len(doc[b].indexed) :
      LET e == doc[b].indexed[i]
          occurrences == {n \in 1..Len(log) :
                            log[n].op = "indexed" /\ CanonicalOf(log[n]) = e.term}
      IN /\ {loc.n : loc \in e.locations} = {log[n].p : n \in occurrences}
         /\ b = "epub" =>
              \A loc \in e.locations :
                \A p \in {log[n].p : n \in occurrences} :
                  (loc.n = p /\ FilesOf(p) # {}) => loc.file \in FilesOf(p)


(* The calls that gave paragraph p content: its creation with a text or,   *)
(* in docx, with a label, and the content calls on it.                     *)
ContentCalls(b, p) ==
  {n \in 1..Len(log) :
     \/ log[n].op \in {"add", "indexed"} /\ log[n].p = p
     \/ /\ log[n].op \in ParagraphMakers
        /\ log[n].p = p
        /\ log[n].text \/ (b = "docx" /\ doc[b].paragraph_numbers)}

(* Paragraph p has received content since its creation or since its last   *)
(* linebreak.                                                              *)
Started(b, p) ==
  \E n \in ContentCalls(b, p) :
    \A m \in n..Len(log) : ~(log[m].op = "linebreak" /\ log[m].p = p)

(* The separators among the pieces the step appended to paragraph p.       *)
SeparatorsAdded(b, p) ==
  LET old == doc[b].pars[p].buf
      new == doc'[b].pars[p].buf
  IN Cardinality({i \in (Len(old) + 1)..Len(new) :
                    \/ new[i].t = "sep"
                    \/ new[i].t = "run" /\ new[i].sep})

(* C24: a content call on a paragraph prepends exactly one separator if    *)
(* and only if it is not raw and the paragraph has received content since  *)
(* its creation or since its last linebreak; a raw call prepends none.     *)
C24_SeparatorIffLineStarted ==
  [][\A b \in Backends :
       Len(log') = Len(log) + 1 /\ Last(log').op \in {"add", "indexed"}
       => LET c == Last(log')
              raw == c.op = "add" /\ c.raw
          IN SeparatorsAdded(b, c.p) =
               IF ~raw /\ Started(b, c.p) THEN 1 ELSE 0]_vars

(* ----------------------------------------------------- section counters *)
(* The section scopes among the frames.                                    *)
SectionFrames(frames) == {i \in 1..Len(frames) : frames[i].k = "section"}

(* C25: the construction of a Section adds one to the last element of      *)
(* sections_counts and changes no other; the entry appends a zero; the     *)
(* exit, an exception's included, removes the element the entry appended;  *)
(* and while a section scope is open no step changes the counters the      *)
(* scope found at its entry, so that they are unchanged after the exit and *)
(* the next sibling is counted one higher.                                 *)
C25_SectionCountersFrame ==
  [][Len(log') = Len(log) + 1 =>
       \A b \in Backends :
         LET sc == doc[b].sections_counts
             sc2 == doc'[b].sections_counts
             c == Last(log')
         IN /\ c.op = "section" => sc2 = [sc EXCEPT ![Len(sc)] = @ + 1]
            /\ c.op = "enter_section" => sc2 = Append(sc, 0)
            /\ (c.op = "exit" /\ c.k = "section") =>
                 /\ sc2 = Front(sc)
                 /\ Len(sc2) = Last(scopes).len[b]
            /\ c.op = "raise" =>
                 sc2 = SubSeq(sc, 1, Len(sc) - Cardinality(SectionFrames(c.gone)))
            /\ \A i \in SectionFrames(scopes') :
                 i <= Len(scopes) =>
                   SubSeq(sc2, 1, scopes[i].len[b]) = SubSeq(sc, 1, scopes[i].len[b])]_vars

(* a section has been constructed, entered and left, and the sibling       *)
(* constructed after it is counted as the second *)
C25_Witness ==
  /\ Len(log) >= 4
  /\ Last(log).op = "section"
  /\ \E n \in 1..Len(log) : log[n].op = "exit" /\ log[n].k = "section"
  /\ \A b \in Backends : doc[b].sections_counts = <<2>>

(* ------------------------------------------------ page break at an entry *)
(* The blocks of backend b in document d.                                  *)
BlocksOf(b, d) == Flat(BookOf(b, d))

(* C26: the entry of a section whose level after the entry is 1 or less    *)
(* leaves what was put out in place, puts the pending paragraph out after  *)
(* it, then breaks the page, then puts the heading of the section: pdf and *)
(* docx break the page with a page break block, epub with a new chapter    *)
(* file, of which the heading is the first block. The entry of a deeper    *)
(* section adds no page break block and no chapter file.                   *)
C26_EntryBreaksPageAtTopLevel ==
  [][(Len(log') = Len(log) + 1 /\ Last(log').op = "enter_section") =>
       \A b \in Backends :
         LET B == BlocksOf(b, doc[b])
             B2 == BlocksOf(b, doc'[b])
             n == Len(B)
             added == SubSeq(B2, n + 1, Len(B2))
             pending == IF b \in Deferred /\ doc[b].cur # 0 THEN 1 ELSE 0
             heading(blk) == blk.k = "heading" /\ blk.sec = Last(log').s
         IN /\ SubSeq(B2, 1, n) = B
            /\ IF section_level(doc'[b]) <= 1
               THEN /\ pending = 1 =>
                         /\ doc'[b].cur = 0
                         /\ added[1].k = "par" /\ added[1].pid = doc[b].cur
                    /\ IF b = "epub"
                       THEN /\ Len(doc'[b].chapters) = Len(doc[b].chapters) + 1
                            /\ heading(doc'[b].out[1])
                            /\ heading(added[pending + 1])
                       ELSE /\ added[pending + 1].k = "pagebreak"
                            /\ heading(added[pending + 2])
               ELSE /\ \A i \in 1..Len(added) : added[i].k # "pagebreak"
                    /\ b = "epub" => doc'[b].chapters = doc[b].chapters]_vars

(* a section of level 1 has been entered with a paragraph pending, and a   *)
(* section of level 2 inside it *)
C26_Witness ==
  /\ Len(log) >= 5
  /\ Last(log).op = "enter_section"
  /\ \A b \in Backends : section_level(doc[b]) = 2
  /\ \E n \in 2..Len(log) :
       /\ log[n].op = "enter_section"
       /\ log[n - 1].op = "quote"
       /\ \E i \in 2..Len(Blocks("pdf")) :
            /\ Blocks("pdf")[i].k = "pagebreak"
            /\ Blocks("pdf")[i - 1].k = "par"
            /\ Blocks("pdf")[i - 1].pid = log[n - 1].p

(* ------------------------------------------- page numbers at the end *)
(* The end-of-document call c has something to put out in document d: the  *)
(* footnotes pending, the references cited, the terms indexed.             *)
HasSection(c, d) ==
  CASE c.op = "output_footnotes" -> d.footnotes # <<>>
    [] c.op = "output_references" -> d.references.bound /\ d.references.used # {}
    [] c.op = "output_indexed" -> d.indexed # <<>>
    [] OTHER -> FALSE

(* The headings among blocks.                                              *)
HeadingsIn(blocks) == {i \in 1..Len(blocks) : blocks[i].k = "heading"}

(* C27: output_footnotes, output_references and output_indexed given page  *)
(* numbers and something to put out render their section, and every number *)
(* given is then in the page table; in docx the contents entry of the      *)
(* section carries the number given for docx.                              *)
C27_EndSectionsApplyPages ==
  [][(/\ Len(log') = Len(log) + 1
      /\ Last(log').op \in {"output_footnotes", "output_references", "output_indexed"}
      /\ HasSection(Last(log'), doc["docx"])) =>
       \A b \in Backends :
         LET pages == Last(log').pages
             B == BlocksOf(b, doc[b])
             B2 == BlocksOf(b, doc'[b])
         IN /\ Cardinality(HeadingsIn(B2)) = Cardinality(HeadingsIn(B)) + 1
            /\ \A i \in 1..Len(pages) :
                 /\ doc'[b].page[pages[i].format] = pages[i].number.n
                 /\ (b = "docx" /\ pages[i].format = "docx") =>
                      /\ Len(doc'[b].toc_rows) = Len(doc[b].toc_rows) + 1
                      /\ Last(doc'[b].toc_rows).page = pages[i].number.n]_vars

(* --------------------------------------------- nothing to put out *)
(* C28: Document.output_footnotes with no footnote pending makes no        *)
(* Section object, puts no heading out and starts no contents table, and   *)
(* leaves sections_counts, paragraphs_count, the page table and the two    *)
(* numbering settings as they were, in every backend.                      *)
C28_OutputFootnotesEmptyIsNoOp ==
  [][(/\ Len(log') = Len(log) + 1
      /\ Last(log').op = "output_footnotes"
      /\ doc["docx"].footnotes = <<>>) =>
       /\ secs' = secs
       /\ \A b \in Backends :
            /\ doc[b].footnotes = <<>>
            /\ HeadingsIn(BlocksOf(b, doc'[b])) = HeadingsIn(BlocksOf(b, doc[b]))
            /\ doc'[b].toc = doc[b].toc
            /\ doc'[b].sections_counts = doc[b].sections_counts
            /\ doc'[b].paragraphs_count = doc[b].paragraphs_count
            /\ doc'[b].page = doc[b].page
            /\ doc'[b].section_numbers = doc[b].section_numbers
            /\ doc'[b].paragraph_numbers = doc[b].paragraph_numbers]_vars

(* output_footnotes has been called at level 0 right after a quote, with   *)
(* no footnote made *)
C28_Witness ==
  /\ Len(log) >= 2
  /\ Last(log).op = "output_footnotes" /\ ~Last(log).failed
  /\ log[Len(log) - 1].op = "quote"
  /\ \A n \in 1..Len(log) : log[n].op # "footnote"
  /\ \A b \in Backends : doc[b].footnotes = <<>> /\ doc[b].paragraphs_count = 1

(* ------------------------------------------------ the items of footnotes *)
(* The type of the item a content operation of Footnote is to append.      *)
ItemTypeOf(call) ==
  CASE call = "emdash" -> "add"
    [] call = "period" -> "raw"
    [] call = "in_subscript" -> "subscript"
    [] call = "in_superscript" -> "superscript"
    [] OTHER -> call

(* C29: every content operation of a Footnote returns without an error and *)
(* appends to the items of that footnote one item, of the type of the      *)
(* operation: indexed an item of type indexed; the items of the other      *)
(* footnotes stay as they are.                                             *)
C29_FootnoteOpAppendsTypedItem ==
  [][(Len(log') = Len(log) + 1 /\ Last(log').op = "footnote_op") =>
       /\ ~Last(log').raised
       /\ \A b \in Backends :
            \A f \in 1..Len(doc[b].fobjs) :
              LET items == doc[b].fobjs[f].items
                  items2 == doc'[b].fobjs[f].items
              IN IF f = Last(log').f
                 THEN /\ Len(items2) = Len(items) + 1
                      /\ SubSeq(items2, 1, Len(items)) = items
                      /\ Last(items2).type = ItemTypeOf(Last(log').call)
                 ELSE items2 = items]_vars

(* C30: no footnote holds an item of a type output_footnotes_list has no   *)
(* case for, and no call of output_footnotes has raised the error of the   *)
(* unknown item type.                                                      *)
C30_NoUnrecognisedItem ==
  /\ \A b \in Backends :
       \A f \in 1..Len(doc[b].fobjs) :
         \A i \in 1..Len(doc[b].fobjs[f].items) :
           doc[b].fobjs[f].items[i].type \in ItemTypes
  /\ \A n \in 1..Len(log) : log[n].op = "output_footnotes" => ~log[n].fatal

(* indexed and link have been called on a footnote, and output_footnotes   *)
(* has put the footnote out *)
C30_Witness ==
  /\ Len(log) >= 5
  /\ Last(log).op = "output_footnotes" /\ ~Last(log).failed
  /\ log[Len(log) - 1].op = "footnote_op" /\ log[Len(log) - 1].call = "indexed"
  /\ log[Len(log) - 2].op = "footnote_op" /\ log[Len(log) - 2].call = "link"
  /\ \A b \in Backends : doc[b].footnotes = <<>> /\ Len(Rendered(b, Blocks(b))) = 1

(* ------------------------------------------- citations and the registry *)
(* The words the step added to Paragraph object p of backend b.            *)
WordsAdded(b, p) ==
  LET old == ParTexts(doc[b], p)
      new == ParTexts(doc'[b], p)
  IN {new[i].w : i \in (Len(old) + 1)..Len(new)}

(* C31: with a registry bound to the document, whatever it has loaded,     *)
(* Paragraph.reference goes to the registry: a key that names an item is   *)
(* marked used and written in the short form, a key that names none gives  *)
(* the placeholder; the name itself is written only when no registry is    *)
(* bound.                                                                  *)
C31_ReferenceDelegatesWhenBound ==
  [][(Len(log') = Len(log) + 1 /\ Last(log').op = "reference") =>
       \A b \in Backends :
         LET c == Last(log')
             r == doc[b].references
         IN IF ~r.bound THEN WordsAdded(b, c.p) = {"name"}
            ELSE IF ReferencesContains(r, c.name)
            THEN /\ c.name \in doc'[b].references.used
                 /\ WordsAdded(b, c.p) = {"refkey", "reftitle"}
            ELSE /\ doc'[b].references.used = r.used
                 /\ WordsAdded(b, c.p) = {"ref?"}]_vars

(* ------------------------------------------- the paragraphs of an item *)
(* The calls that made a paragraph or a quote in ListItem object i.        *)
ItemParagraphs(i) ==
  {n \in 1..Len(log) : log[n].op = "item_paragraph" /\ log[n].i = i}

(* The docx styles of the paragraphs that continue an item.                *)
ContinueStyles == {"List Continue", "List Continue Quote"}

(* C32: in docx, of the paragraphs and quotes made in one list item the    *)
(* first has the style of the list, bulleted or numbered, and every later  *)
(* one the style that continues the item, whatever the order of paragraph  *)
(* and quote calls.                                                        *)
C32_FirstItemParagraphIsBulleted ==
  \A n \in 1..Len(log) :
    log[n].op = "item_paragraph" =>
      LET first == \A m \in ItemParagraphs(log[n].i) : n <= m
          style == doc["docx"].pars[log[n].p].kind.style
      IN (style \in ContinueStyles) <=> ~first

(* ------------------------------------------- the contents table of docx *)
(* C33: in docx the entry of a section adds one row to the contents table  *)
(* exactly when the level of the section is at most toc_level, and the row *)
(* shows the docx page of the moment; set_page on a section puts the docx  *)
(* page it leaves into the row of that section and changes no other row;   *)
(* no other step changes the table.                                        *)
C33_TocRowPerSectionAndPage ==
  [][Len(log') = Len(log) + 1 =>
       LET c == Last(log')
           d == doc["docx"]
           d2 == doc'["docx"]
           rows == d.toc_rows
           rows2 == d2.toc_rows
       IN CASE c.op = "enter_section" ->
                 IF section_level(d2) <= d2.toc_level
                 THEN /\ Len(rows2) = Len(rows) + 1
                      /\ SubSeq(rows2, 1, Len(rows)) = rows
                      /\ Last(rows2).sec = c.s
                      /\ Last(rows2).page = d.page.docx
                 ELSE rows2 = rows
            [] c.op = "section_set_page" /\ ~c.raised ->
                 /\ Len(rows2) = Len(rows)
                 /\ \A i \in 1..Len(rows) :
                      IF rows[i].sec = c.s
                      THEN rows2[i] = [rows[i] EXCEPT !.page = d2.page.docx]
                      ELSE rows2[i] = rows[i]
            [] OTHER -> rows2 = rows]_vars

(* two sections have a row each, and set_page on the first has changed the *)
(* page of its row alone *)
C33_Witness ==
  /\ log # <<>>
  /\ Last(log).op = "section_set_page" /\ Last(log).s = 1
  /\ Len(doc["docx"].toc_rows) = 2
  /\ doc["docx"].toc_rows[1].sec = 1 /\ doc["docx"].toc_rows[1].page = 2
  /\ doc["docx"].toc_rows[2].page = 1

(* ------------------------------------------------- the page table kept *)
(* The formats a call of set_page gives a number for.                      *)
Numbered(pages) ==
  {pages[i].format : i \in {j \in 1..Len(pages) : ~pages[j].number.none}}

(* C34: a set_page that raises for an unknown format leaves the whole page *)
(* table as it was, also when it names formats the document has; set_page  *)
(* changes the page of no format it gives no number for, None included,    *)
(* and increment_page the page of no format but its own.                   *)
C34_PageTableFrame ==
  [][Len(log') = Len(log) + 1 =>
       \A b \in Backends :
         LET c == Last(log')
             page == doc[b].page
             page2 == doc'[b].page
         IN CASE c.op = "set_page" ->
                   /\ c.raised => page2 = page
                   /\ \A f \in DOMAIN page :
                        f \notin Numbered(c.pages) => page2[f] = page[f]
              [] c.op = "increment_page" ->
                   \A f \in DOMAIN page : f # c.format => page2[f] = page[f]
              [] OTHER -> TRUE]_vars

(* ------------------------------------------- labels and no_numbers *)
(* The no_numbers scopes open when call n was made: those entered before   *)
(* it less those left, by their end or by an exception.                    *)
NoNumbersOpenAt(n) ==
  Cardinality({m \in 1..(n - 1) : log[m].op = "no_numbers"})
    - Cardinality({m \in 1..(n - 1) : log[m].op = "exit" /\ log[m].k = "nonum"})
    - Cardinality({x \in (1..(n - 1)) \X (1..Len(log)) :
                     /\ log[x[1]].op = "raise"
                     /\ x[2] <= Len(log[x[1]].gone)
                     /\ log[x[1]].gone[x[2]].k = "nonum"})

(* C35: a paragraph made inside a no_numbers scope is put out without a    *)
(* label, in every backend, also when it is put out after the scope has    *)
(* been left.                                                              *)
C35_NoLabelForNoNumbersParagraph ==
  \A b \in Backends :
    \A i \in 1..Len(Blocks(b)) :
      LET blk == Blocks(b)[i]
      IN (blk.k = "par" /\ StartedBy(blk) # 0 /\ NoNumbersOpenAt(StartedBy(blk)) > 0)
           => Labels(b, blk) = {}

(* ------------------------------------------------ style markers matched *)
(* The markers of a content are matched and properly nested: read from the *)
(* left with the styles open so far, every closing marker closes the style *)
(* opened last, and none is open at the end.                               *)
RECURSIVE Nested(_, _)
Nested(body, open) ==
  IF body = <<>> THEN open = <<>>
  ELSE LET h == Head(body)
       IN CASE h.t = "open" -> Nested(Tail(body), Append(open, h.s))
            [] h.t = "close" ->
                 /\ open # <<>>
                 /\ Last(open) = h.s
                 /\ Nested(Tail(body), Front(open))
            [] OTHER -> Nested(Tail(body), open)

(* C36: in pdf and epub the content of every paragraph put out has its     *)
(* style markers matched and properly nested, also when the paragraph was  *)
(* put out while one of its style scopes was open.                         *)
C36_EmittedMarkersNested ==
  \A b \in Deferred :
    \A i \in 1..Len(Blocks(b)) :
      Blocks(b)[i].k = "par" => Nested(Blocks(b)[i].body, <<>>)

(* ------------------------------------------------------ the bibliography *)
(* The paragraphs put out that give item k of the registry in full.        *)
FullEntries(b, k) ==
  {i \in 1..Len(Blocks(b)) :
     /\ Blocks(b)[i].k = "par"
     /\ \E j \in 1..Len(Texts(Body(b, Blocks(b)[i]))) :
          LET t == Texts(Body(b, Blocks(b)[i]))[j]
          IN t.w = "reffull" /\ t.key = k}

(* The items of the registry cited so far, in whatever case.               *)
Cited(b) ==
  {k \in doc[b].references.items :
     \E n \in 1..Len(log) : log[n].op = "reference" /\ casefold(log[n].name) = k}

(* C37: the bibliography output_references writes, called once at the end, *)
(* has one entry for every item cited, however often and in whatever case  *)
(* its key was written, and none for the others.                           *)
C37_CitedItemOnceInBibliography ==
  (/\ log # <<>>
   /\ Last(log).op = "output_references"
   /\ ~Last(log).raised
   /\ \A n \in 1..(Len(log) - 1) : log[n].op # "output_references") =>
    \A b \in Backends :
      \A k \in doc[b].references.items :
        Cardinality(FullEntries(b, k)) = IF k \in Cited(b) THEN 1 ELSE 0
====
